---- MODULE Spec2Model ----
(***************************************************************************)
(* Model of the OpenFGA modeling MCP server: the PromptMatcher engine      *)
(* (prompt-matcher.ts), the tools/call adapter of PromptContextServer      *)
(* (index.ts and its session-server variant) and the prompts directory.    *)
(*                                                                         *)
(* JavaScript strings are sequences of one-character strings.  Objects     *)
(* and arrays live in heaps (ruleObjs, arrays) and are passed by           *)
(* reference, as in the program.                                           *)
(***************************************************************************)
EXTENDS Integers, Sequences, FiniteSets, TLC

\* ------------------------------------------------------------------ bounds
\* longest query of the matching specification
MaxLen == 3
\* longest query of the engine, rule-set and server specifications
MaxQLen == 1
\* most rules in a rule set
MaxRules == 2
\* most patterns in one rule (matching specification)
MaxPatterns == 2
\* most caller writes through a value returned by getAllRules()
MaxWrites == 2
\* most rewrites of one prompt file
MaxVersion == 2
\* most requests one server process logs
MaxRequests == 4
\* most tool calls in flight at once (concurrent sessions)
MaxCalls == 2
\* most Server/transport pairs one server process creates
MaxPairs == 3

\* ------------------------------------------------------------- input sets
Chars == {"a", "A", "b", " "}

\* trigger patterns rule sets are built from: empty, whitespace-only,
\* lower-case, mixed-case
PatternPool == {<< >>, <<" ">>, <<"a">>, <<"A", "b">>}

Files == <<"f1.md", "f2.md">>

Descriptions == <<"d1", "d2">>

StringsUpTo(n) == UNION {[1..k -> Chars] : k \in 0..n}

\* ------------------------------------------------------ JavaScript values
Str(s) == [t |-> "string", s |-> s]

Undefined == [t |-> "undefined", s |-> << >>]

NumberValue == [t |-> "number", s |-> << >>]

IsString(v) == v.t = "string"

Null == 0

Missing == <<"ENOENT">>

\* a directory where a document is expected
IsADirectory == <<"EISDIR">>

\* the rejections of fs.readFile
Rejections == {Missing, IsADirectory}

\* ------------------------------------------------------- string functions
\* String.prototype.toLowerCase on one character
LowerChar(c) ==
  CASE c = "A" -> "a" [] c = "B" -> "b" [] c = "C" -> "c"
    [] c = "D" -> "d" [] c = "E" -> "e" [] c = "F" -> "f"
    [] c = "G" -> "g" [] c = "H" -> "h" [] c = "I" -> "i"
    [] c = "J" -> "j" [] c = "K" -> "k" [] c = "L" -> "l"
    [] c = "M" -> "m" [] c = "N" -> "n" [] c = "O" -> "o"
    [] c = "P" -> "p" [] c = "Q" -> "q" [] c = "R" -> "r"
    [] c = "S" -> "s" [] c = "T" -> "t" [] c = "U" -> "u"
    [] c = "V" -> "v" [] c = "W" -> "w" [] c = "X" -> "x"
    [] c = "Y" -> "y" [] c = "Z" -> "z"
    [] OTHER -> c

toLowerCase(s) == [i \in 1..Len(s) |-> LowerChar(s[i])]

\* mutant: the pattern is looked for at the start of the query only
includes_atStart(s, p) ==
  Len(p) <= Len(s) /\ SubSeq(s, 1, Len(p)) = p

\* String.prototype.includes: p occurs in s as a contiguous substring
includes(s, p) ==
  \E k \in 0..(Len(s) - Len(p)) : SubSeq(s, k + 1, k + Len(p)) = p

\* String.prototype.trim().length === 0
Whitespace == {" "}

IsBlank(s) == \A i \in 1..Len(s) : s[i] \in Whitespace


\* ------------------------------------------------------------------ state
VARIABLES
  ruleObjs,  \* heap of PromptRule objects: object id -> record
  arrays,    \* heap of arrays of PromptRule references: array id -> sequence
  returned,  \* the reference a caller holds from its last getAllRules()
  writes,    \* number of writes the caller made through that reference
  files,     \* the prompts directory: file name -> content or Missing
  call,      \* the engine or tool call in flight, or the last one completed
  prev,      \* the getContextForQuery completed before it, with the same store
  running,   \* the server process has not exited
  failed,    \* the kinds of failed tool calls so far: "load" (document),
             \* "unknown" (tool name), "args" (missing or malformed arguments)
  env,       \* process.env of the server process
  logger,    \* the Logger of the server: its level and request counter
  issued,    \* the request ids logRequest has returned in this process
  pool,      \* the tool calls of concurrent sessions: slot -> call
  sessionServers,  \* the session map of run(): session id -> pair
  requests,  \* the HTTP requests in flight: slot -> request
  pairs      \* the Server/transport pairs created so far, in order

vars == <<ruleObjs, arrays, returned, writes, files, call, prev, running, failed,
          env, logger, issued, pool, sessionServers, requests, pairs>>

\* the state of the matcher, its callers and the tool handlers
engineVars ==
  <<ruleObjs, arrays, returned, writes, files, call, prev, running, failed,
    env, logger, issued, pool>>

\* the state of the HTTP server of run()
httpVars == <<sessionServers, requests, pairs>>

\* new Map(): no session
NoSessions == [s \in {} |-> 0]

\* no mcp-session-id header
NoHeader == << >>

\* no Server/transport pair
NoPair == 0

\* the response object of a request on arrival: nothing written
NewResponse ==
  [headersSent |-> FALSE, statusCode |-> 0, ended |-> FALSE, rejected |-> FALSE]

IdleRequest ==
  [pc |-> "idle", build |-> "none", method |-> "none", url |-> "none",
   header |-> NoHeader, sessionId |-> NoHeader, pair |-> NoPair,
   error |-> "none", res |-> NewResponse]

\* this.rules is array 1; [...this.rules] allocates array 2
RulesRef == 1

CopyRef == 2

NoRef == 0

\* the rule set as the engine sees it: this.rules with the records inlined
RuleSet == [i \in 1..Len(arrays[RulesRef]) |-> ruleObjs[arrays[RulesRef][i]]]

\* ------------------------------------------------------ environment, logger
Unset == "<unset>"

\* values of process.env.LOG_LEVEL
LogLevelValues == {Unset, "debug", "WARN", "ERROR", "verbose"}

DefaultEnv ==
  [LOG_LEVEL |-> Unset, PORT |-> Unset, RAILWAY_ENVIRONMENT |-> Unset,
   NODE_ENV |-> Unset]

\* environments a server process is started with: local and production
\* ones, at every level
EnvPool ==
  {DefaultEnv,
   [DefaultEnv EXCEPT !.LOG_LEVEL = "debug"],
   [DefaultEnv EXCEPT !.LOG_LEVEL = "verbose", !.PORT = "", !.NODE_ENV = "test"],
   [DefaultEnv EXCEPT !.LOG_LEVEL = "ERROR", !.PORT = "8080"],
   [DefaultEnv EXCEPT !.LOG_LEVEL = "WARN", !.RAILWAY_ENVIRONMENT = "production"],
   [DefaultEnv EXCEPT !.NODE_ENV = "production"]}

\* enum LogLevel
LogLevel == [DEBUG |-> 0, INFO |-> 1, WARN |-> 2, ERROR |-> 3]

\* String.prototype.toUpperCase on the values of LOG_LEVEL
toUpperCase(v) ==
  CASE v = "debug" -> "DEBUG" [] v = "verbose" -> "VERBOSE" [] OTHER -> v

\* the level the constructor derives from process.env.LOG_LEVEL
LevelOf(e) ==
  LET logLevel == IF e.LOG_LEVEL = Unset THEN Unset ELSE toUpperCase(e.LOG_LEVEL) IN
    CASE logLevel = "DEBUG" -> LogLevel.DEBUG
      [] logLevel = "WARN" -> LogLevel.WARN
      [] logLevel = "ERROR" -> LogLevel.ERROR
      [] OTHER -> LogLevel.INFO

\* new Logger(level)
NewLogger(e) == [logLevel |-> LevelOf(e), requestId |-> 0]

\* run(): PORT || RAILWAY_ENVIRONMENT || NODE_ENV === 'production'
isProduction(e) ==
  \/ e.PORT \notin {Unset, ""}
  \/ e.RAILWAY_ENVIRONMENT \notin {Unset, ""}
  \/ e.NODE_ENV = "production"

\* Logger.shouldLog(level)
shouldLog(level) == level >= logger.logLevel

\* Number.prototype.toString of a non-negative integer: its decimal digits
DigitChars == <<"0", "1", "2", "3", "4", "5", "6", "7", "8", "9">>

RECURSIVE toString(_)
toString(n) ==
  IF n < 10 THEN <<DigitChars[n + 1]>>
  ELSE Append(toString(n \div 10), DigitChars[(n % 10) + 1])

\* mutant: the counter advances only when the request line is written
logRequest_whenLogged ==
  IF shouldLog(LogLevel.INFO)
  THEN [id |-> toString(logger.requestId + 1),
        logger |-> [logger EXCEPT !.requestId = @ + 1], written |-> TRUE]
  ELSE [id |-> toString(logger.requestId), logger |-> logger, written |-> FALSE]

\* Logger.logRequest: (++this.requestId).toString(), then this.info(...)
logRequest ==
  [id |-> toString(logger.requestId + 1),
   logger |-> [logger EXCEPT !.requestId = @ + 1],
   written |-> shouldLog(LogLevel.INFO)]

\* one call of a method of the Logger, for request requestId
LogCall(method, requestId, status) ==
  [method |-> method, requestId |-> requestId, status |-> status]

\* the logRequest call that returns the next request id
LoggedRequest == LogCall("logRequest", logRequest.id, "none")

\* Logger.logToolCall(toolName, args, requestId)
logToolCall(requestId) == LogCall("logToolCall", requestId, "none")

\* Logger.logResourceAccess(uri, requestId)
logResourceAccess(requestId) == LogCall("logResourceAccess", requestId, "none")

\* Logger.logResponse(requestId, result, error): error ? 'ERROR' : 'SUCCESS'
logResponse(requestId, error) ==
  LogCall("logResponse", requestId, IF error THEN "ERROR" ELSE "SUCCESS")

\* ----------------------------------------------------------------- engine
NullContent == <<"null">>

NoError == << >>

Return(rule, content, matchFound) ==
  [kind |-> "return", rule |-> rule, content |-> content,
   matchFound |-> matchFound, error |-> NoError]

Throw(error) ==
  [kind |-> "throw", rule |-> Null, content |-> NullContent,
   matchFound |-> FALSE, error |-> error]

NotInvoked ==
  [kind |-> "none", rule |-> Null, content |-> NullContent,
   matchFound |-> FALSE, error |-> NoError]

\* mutant: receiver and argument of includes exchanged
PatternHit_swapped(lowercaseQuery, pattern) ==
  includes(toLowerCase(pattern), lowercaseQuery)

\* mutant: the pattern is not lower-cased
PatternHit_caseSensitive(lowercaseQuery, pattern) ==
  includes(lowercaseQuery, pattern)

\* lowercaseQuery.includes(pattern.toLowerCase())
PatternHit(lowercaseQuery, pattern) ==
  includes(lowercaseQuery, toLowerCase(pattern))

\* mutant: the inner loop gives up after the first pattern of a rule
ScanPatterns_firstOnly(lowercaseQuery, patterns, j) ==
  j = 1 /\ Len(patterns) >= 1 /\ PatternHit(lowercaseQuery, patterns[1])

\* for (const pattern of rule.patterns) from index j on
RECURSIVE ScanPatterns(_, _, _)
ScanPatterns(lowercaseQuery, patterns, j) ==
  IF j > Len(patterns) THEN FALSE
  ELSE IF PatternHit(lowercaseQuery, patterns[j]) THEN TRUE
  ELSE ScanPatterns(lowercaseQuery, patterns, j + 1)

\* for (const rule of this.rules) from index i on; the rule reference or null
RECURSIVE ScanRules(_, _, _, _)
ScanRules(lowercaseQuery, arr, objs, i) ==
  IF i > Len(arr) THEN Null
  ELSE IF ScanPatterns(lowercaseQuery, objs[arr[i]].patterns, 1) THEN arr[i]
  ELSE ScanRules(lowercaseQuery, arr, objs, i + 1)

\* mutant: the first rule is the default when no pattern matches
findBestMatch_defaultRule(query) ==
  IF ~IsString(query) THEN Throw(<<"TypeError">>)
  ELSE LET r == ScanRules(toLowerCase(query.s), arrays[RulesRef], ruleObjs, 1) IN
         Return(IF r = Null /\ Len(arrays[RulesRef]) > 0
                THEN arrays[RulesRef][1] ELSE r,
                NullContent, FALSE)

\* mutant: patterns tested with a sticky matcher whose position survives a
\* successful call, so the repetition of a matched query finds nothing
findBestMatch_sticky(query) ==
  IF ~IsString(query) THEN Throw(<<"TypeError">>)
  ELSE IF prev.set /\ prev.query = query /\ prev.outcome.rule # Null
  THEN Return(Null, NullContent, FALSE)
  ELSE Return(ScanRules(toLowerCase(query.s), arrays[RulesRef], ruleObjs, 1),
              NullContent, FALSE)

\* mutant: the matched rule is moved to the front of this.rules
RulesAfterMatch_moveToFront(query) ==
  LET rules == arrays[RulesRef]
      hit == IF IsString(query)
             THEN ScanRules(toLowerCase(query.s), rules, ruleObjs, 1)
             ELSE Null IN
    IF hit = Null THEN rules
    ELSE <<hit>> \o SelectSeq(rules, LAMBDA r : r # hit)

\* this.rules after findBestMatch(query): the loops only read it
RulesAfterMatch(query) == arrays[RulesRef]

\* mutant: matching is switched off in production mode
findBestMatch_productionOff(query) ==
  IF ~IsString(query) THEN Throw(<<"TypeError">>)
  ELSE IF isProduction(env) THEN Return(Null, NullContent, FALSE)
  ELSE Return(ScanRules(toLowerCase(query.s), arrays[RulesRef], ruleObjs, 1),
              NullContent, FALSE)

\* findBestMatch(query): query.toLowerCase() throws a TypeError when query is
\* not a string
findBestMatch(query) ==
  IF ~IsString(query) THEN Throw(<<"TypeError">>)
  ELSE Return(ScanRules(toLowerCase(query.s), arrays[RulesRef], ruleObjs, 1),
              NullContent, FALSE)

\* path.join(process.cwd(), 'prompts')
promptsDir == <<"cwd", "prompts">>

\* the segments of a relative path ("" has none)
split(name) ==
  CASE name = "" -> << >>
    [] name = "../env.txt" -> <<"..", "env.txt">>
    [] OTHER -> <<name>>

\* path.join(dir, ...segments), normalised: ".." leaves a directory
RECURSIVE join(_, _)
join(dir, segments) ==
  IF segments = << >> THEN dir
  ELSE IF Head(segments) = ".."
  THEN join(SubSeq(dir, 1, Len(dir) - 1), Tail(segments))
  ELSE join(Append(dir, Head(segments)), Tail(segments))

\* the readable files outside the prompts directory
OutsideFiles == {<<"cwd", "env.txt">>}

\* fs.readFile(filePath, 'utf-8') once settled: the content, or the
\* rejection (Missing where no file is, IsADirectory for a directory)
readFile(filePath) ==
  IF /\ Len(filePath) = Len(promptsDir) + 1
     /\ SubSeq(filePath, 1, Len(promptsDir)) = promptsDir
     /\ filePath[Len(filePath)] \in DOMAIN files
  THEN files[filePath[Len(filePath)]]
  ELSE IF filePath \in OutsideFiles
  THEN <<filePath[Len(filePath)], 1>>
  ELSE Missing

\* `${error}` for the error that fs.readFile(filePath) rejected with: the
\* text of an open failure names the path, the text of a read failure does
\* not
ErrorString(rejection, filePath) ==
  IF rejection = Missing
  THEN <<"Error: ENOENT: no such file or directory, open ">> \o filePath
  ELSE <<"Error: EISDIR: illegal operation on a directory, read">>

\* loadPromptContent(promptFile) once fs.readFile has settled
loadPromptContent(promptFile) ==
  LET filePath == join(promptsDir, split(promptFile))
      content == readFile(filePath) IN
    IF content \in Rejections
    THEN Throw(<<"Failed to load prompt file ", promptFile, ": ">>
                 \o ErrorString(content, filePath))
    ELSE Return(Null, content, FALSE)

\* mutant: the document of the first rule is read before the query is
\* matched
getContextForQuery_eager(query) ==
  LET m == findBestMatch(query) IN
    IF m.kind = "throw" THEN m
    ELSE IF m.rule = Null
    THEN IF Len(arrays[RulesRef]) > 0
         THEN [Return(arrays[RulesRef][1], NullContent, FALSE)
                 EXCEPT !.kind = "await"]
         ELSE Return(Null, NullContent, FALSE)
    ELSE [m EXCEPT !.kind = "await"]

\* getContextForQuery up to its await: the outcome when no read is needed
\* (kind "return" or "throw"), or kind "await" with the matched rule
getContextForQuery(query) ==
  LET m == findBestMatch(query) IN
    IF m.kind = "throw" THEN m
    ELSE IF m.rule = Null THEN Return(Null, NullContent, FALSE)
    ELSE [m EXCEPT !.kind = "await"]

\* mutant: the catch block answers with the no-match record
ContextLoaded_swallowed(rule) ==
  LET l == loadPromptContent(ruleObjs[rule].promptFile) IN
    IF l.kind = "throw"
    THEN Return(Null, NullContent, FALSE)
    ELSE Return(rule, l.content, TRUE)

\* mutant: the matched rule is kept in a field that overlapping calls share
ContextLoaded_sharedRule(rule) ==
  LET rs == {pool[j].rule : j \in {k \in DOMAIN pool : pool[k].pc = "reading"}}
      r == IF rs = {} THEN rule ELSE CHOOSE x \in rs : \A y \in rs : x >= y
      l == loadPromptContent(ruleObjs[r].promptFile) IN
    IF l.kind = "throw"
    THEN Throw(<<"Error loading context: ", l.error>>)
    ELSE Return(r, l.content, TRUE)

\* mutant: when the document of the matched rule cannot be loaded, the
\* document of the rule after it is tried
ContextLoaded_fallback(rule) ==
  LET l == loadPromptContent(ruleObjs[rule].promptFile)
      later == {i \in 1..Len(arrays[RulesRef]) :
                  \E k \in 1..(i - 1) : arrays[RulesRef][k] = rule} IN
    IF l.kind = "throw"
    THEN IF later # {}
         THEN [Return(arrays[RulesRef][CHOOSE i \in later : \A k \in later : i <= k],
                      NullContent, FALSE) EXCEPT !.kind = "await"]
         ELSE Throw(<<"Error loading context: ", l.error>>)
    ELSE Return(rule, l.content, TRUE)

\* mutant: the document of the first rule is loaded for every match
ContextLoaded_firstDocument(rule) ==
  LET l == loadPromptContent(ruleObjs[arrays[RulesRef][1]].promptFile) IN
    IF l.kind = "throw"
    THEN Throw(<<"Error loading context: ", l.error>>)
    ELSE Return(rule, l.content, TRUE)

\* getContextForQuery after its await, for the matched rule
ContextLoaded(rule) ==
  LET l == loadPromptContent(ruleObjs[rule].promptFile) IN
    IF l.kind = "throw"
    THEN Throw(<<"Error loading context: ", l.error>>)
    ELSE Return(rule, l.content, TRUE)

\* ------------------------------------------------------------ construction
\* sequences over S of length 1..n without repetition
NoDupSeqs(S, n) ==
  {q \in UNION {[1..k -> S] : k \in 1..n} :
     \A i, j \in 1..Len(q) : i # j => q[i] # q[j]}

\* pattern lists of the matching specification
PatternLists == NoDupSeqs(PatternPool, MaxPatterns)

\* pattern lists of the other specifications: one pattern per rule
SinglePatternLists == {<<p>> : p \in PatternPool}

PromptFileOf(i) == Files[((i - 1) % Len(Files)) + 1]

DescriptionOf(i) == Descriptions[((i - 1) % Len(Descriptions)) + 1]

NoArgs == [present |-> FALSE, query |-> Undefined]

NoResponse == [kind |-> "none", isError |-> FALSE, text |-> << >>]

\* no loadPromptContent argument
NoFile == ""

IdleCall ==
  [pc |-> "idle", via |-> "none", op |-> "none", args |-> NoArgs,
   query |-> Undefined, rule |-> Null, outcome |-> NotInvoked,
   response |-> NoResponse, fresh |-> TRUE,
   requestId |-> << >>, uri |-> << >>, file |-> NoFile, reads |-> 0,
   log |-> << >>]

NoPrev ==
  [set |-> FALSE, query |-> Undefined, outcome |-> NotInvoked, env |-> DefaultEnv]

\* the prompts directory with every document in place
AllPresent == [f \in {Files[i] : i \in 1..Len(Files)} |-> <<f, 1>>]

\* the prompts directories in which any document may be absent or replaced
\* by a directory
AnyStore ==
  [{Files[i] : i \in 1..Len(Files)} -> {<<"present">>} \cup Rejections]

Stores ==
  {[f \in DOMAIN st |-> IF st[f] = <<"present">> THEN <<f, 1>> ELSE st[f]] :
     st \in AnyStore}

\* new PromptMatcher() with a rule set of n rules, new PromptContextServer(),
\* the prompts directory being one of stores: the constructors read no file
InitStores(patternLists, stores) ==
  /\ \E n \in 0..MaxRules : \E pls \in [1..n -> patternLists] :
       /\ ruleObjs = [i \in 1..n |->
                        [patterns |-> pls[i], promptFile |-> PromptFileOf(i),
                         description |-> DescriptionOf(i)]]
       /\ arrays = <<[i \in 1..n |-> i], << >> >>
  /\ returned = NoRef
  /\ writes = 0
  /\ files \in stores
  /\ call = IdleCall
  /\ prev = NoPrev
  /\ running = TRUE
  /\ failed = {}
  /\ logger = NewLogger(env)
  /\ issued = {}
  /\ pool = [i \in 1..MaxCalls |-> IdleCall]
  /\ sessionServers = NoSessions
  /\ requests = [i \in 1..MaxCalls |-> IdleRequest]
  /\ pairs = << >>

InitWith(patternLists) == InitStores(patternLists, {AllPresent})

Init == env = DefaultEnv /\ InitWith(SinglePatternLists)

InitMatch == env = DefaultEnv /\ InitWith(PatternLists)

\* ---------------------------------------------------------- direct callers
Queries == {Str(s) : s \in StringsUpTo(MaxLen)} \cup {Undefined, NumberValue}

SmallQueries == {Str(s) : s \in StringsUpTo(MaxQLen)} \cup {Undefined, NumberValue}

\* matcher.findBestMatch(q)
FindBestMatch(q) ==
  /\ running /\ call.pc = "idle"
  /\ call' = [IdleCall EXCEPT !.pc = "done", !.via = "engine",
                !.op = "findBestMatch", !.query = q,
                !.outcome = findBestMatch(q)]
  /\ arrays' = [arrays EXCEPT ![RulesRef] = RulesAfterMatch(q)]
  /\ UNCHANGED httpVars
  /\ UNCHANGED <<ruleObjs, returned, writes, files, prev, running, failed,
               env, logger, issued, pool>>

\* matcher.getContextForQuery(q) up to the await of fs.readFile
GetContextForQuery(q) ==
  /\ running /\ call.pc = "idle"
  /\ LET o == getContextForQuery(q) IN
       call' = IF o.kind = "await"
               THEN [IdleCall EXCEPT !.pc = "reading", !.via = "engine",
                       !.op = "getContextForQuery", !.query = q,
                       !.rule = o.rule, !.reads = 1]
               ELSE [IdleCall EXCEPT !.pc = "done", !.via = "engine",
                       !.op = "getContextForQuery", !.query = q,
                       !.outcome = o]
  /\ UNCHANGED httpVars
  /\ UNCHANGED <<ruleObjs, arrays, returned, writes, files, prev, running, failed,
               env, logger, issued, pool>>

\* fs.readFile settles and getContextForQuery goes on to its end, where it
\* returns or throws, or to a further read
ReadSettled ==
  /\ running /\ call.pc = "reading" /\ call.via = "engine"
  /\ call.op = "getContextForQuery"
  /\ LET o == ContextLoaded(call.rule) IN
       call' = IF o.kind = "await"
               THEN [call EXCEPT !.rule = o.rule, !.reads = @ + 1]
               ELSE [call EXCEPT !.pc = "done", !.outcome = o]
  /\ UNCHANGED httpVars
  /\ UNCHANGED <<ruleObjs, arrays, returned, writes, files, prev, running, failed,
               env, logger, issued, pool>>

\* matcher.loadPromptContent(promptFile) up to the await of fs.readFile
LoadPromptContent(promptFile) ==
  /\ running /\ call.pc = "idle"
  /\ call' = [IdleCall EXCEPT !.pc = "reading", !.via = "engine",
                !.op = "loadPromptContent", !.file = promptFile, !.reads = 1]
  /\ UNCHANGED httpVars
  /\ UNCHANGED <<ruleObjs, arrays, returned, writes, files, prev, running, failed,
               env, logger, issued, pool>>

\* fs.readFile settles and loadPromptContent returns or throws
LoadSettled ==
  /\ running /\ call.pc = "reading" /\ call.via = "engine"
  /\ call.op = "loadPromptContent"
  /\ call' = [call EXCEPT !.pc = "done", !.outcome = loadPromptContent(call.file)]
  /\ UNCHANGED httpVars
  /\ UNCHANGED <<ruleObjs, arrays, returned, writes, files, prev, running, failed,
               env, logger, issued, pool>>

\* the caller takes the result; a completed getContextForQuery that saw the
\* present store and rule set is kept for comparison with the calls after it
Consume ==
  /\ call.pc = "done"
  /\ prev' = IF /\ call.op \in {"getContextForQuery", "get_context_for_query"}
                /\ call.outcome.kind # "none" /\ call.fresh
             THEN [set |-> TRUE, query |-> call.query, outcome |-> call.outcome,
                   env |-> env]
             ELSE prev
  /\ call' = IdleCall
  /\ UNCHANGED httpVars
  /\ UNCHANGED <<ruleObjs, arrays, returned, writes, files, running, failed,
               env, logger, issued, pool>>

\* the caller takes the result (matching specification: nothing is kept)
Forget ==
  /\ call.pc = "done"
  /\ call' = IdleCall
  /\ UNCHANGED httpVars
  /\ UNCHANGED <<ruleObjs, arrays, returned, writes, files, prev, running, failed,
               env, logger, issued, pool>>

\* ------------------------------------------------------- prompts directory
\* a change of the store or of the rule set ends the comparison of calls
Changed ==
  /\ prev' = NoPrev
  /\ call' = [call EXCEPT !.fresh = FALSE]

DeleteFile(f) ==
  /\ files[f] # Missing
  /\ files' = [files EXCEPT ![f] = Missing]
  /\ Changed
  /\ UNCHANGED httpVars
  /\ UNCHANGED <<ruleObjs, arrays, returned, writes, running, failed,
               env, logger, issued, pool>>

WriteFile(f, v) ==
  /\ files[f] # <<f, v>>
  /\ files' = [files EXCEPT ![f] = <<f, v>>]
  /\ Changed
  /\ UNCHANGED httpVars
  /\ UNCHANGED <<ruleObjs, arrays, returned, writes, running, failed,
               env, logger, issued, pool>>

\* a directory with the name of the document takes its place
MakeDirectory(f) ==
  /\ files[f] # IsADirectory
  /\ files' = [files EXCEPT ![f] = IsADirectory]
  /\ Changed
  /\ UNCHANGED httpVars
  /\ UNCHANGED <<ruleObjs, arrays, returned, writes, running, failed,
               env, logger, issued, pool>>

Next ==
  \/ \E q \in SmallQueries : FindBestMatch(q)
  \/ \E q \in SmallQueries : GetContextForQuery(q)
  \/ ReadSettled
  \/ Consume
  \/ \E f \in DOMAIN files : DeleteFile(f)
  \/ \E f \in DOMAIN files : \E v \in 1..MaxVersion : WriteFile(f, v)

Spec == Init /\ [][Next]_vars

NextMatch ==
  \/ \E q \in Queries : FindBestMatch(q)
  \/ \E q \in Queries : GetContextForQuery(q)
  \/ ReadSettled
  \/ Forget

SpecMatch == InitMatch /\ [][NextMatch]_vars

\* ------------------------------------------------- matching: C1, C2, C7
\* the two cases of one letter
UpperLetters ==
  <<"A", "B", "C", "D", "E", "F", "G", "H", "I", "J", "K", "L", "M", "N", "O",
   "P", "Q", "R", "S", "T", "U", "V", "W", "X", "Y", "Z">>

LowerLetters ==
  <<"a", "b", "c", "d", "e", "f", "g", "h", "i", "j", "k", "l", "m", "n", "o",
   "p", "q", "r", "s", "t", "u", "v", "w", "x", "y", "z">>

CasePairs == {{LowerLetters[i], UpperLetters[i]} : i \in 1..Len(UpperLetters)}

SameLetter(c, d) == c = d \/ {c, d} \in CasePairs

\* pattern p is a case-insensitive contiguous substring of query text q
ContainsIgnoringCase(q, p) ==
  \E k \in 0..(Len(q) - Len(p)) :
    \A j \in 1..Len(p) : SameLetter(q[k + j], p[j])

\* rule i of the rule set has a pattern that q contains
Triggered(i, q) ==
  \E j \in 1..Len(RuleSet[i].patterns) :
    ContainsIgnoringCase(q, RuleSet[i].patterns[j])

TriggeredRules(q) == {i \in 1..Len(RuleSet) : Triggered(i, q)}

Earliest(S) == CHOOSE i \in S : \A j \in S : i <= j

EngineDone(op) == call.pc = "done" /\ call.via = "engine" /\ call.op = op

\* C1: when no pattern of any rule is a case-insensitive substring of the
\* query, findBestMatch returns null and getContextForQuery returns
\* {rule: null, content: null, matchFound: false} without raising an error
\* and without starting a read.
C1_NoPatternNoMatch ==
  (call.via = "engine" /\ IsString(call.query)
     /\ TriggeredRules(call.query.s) = {})
  => /\ call.pc # "reading"
     /\ call.pc = "done" => call.outcome = Return(Null, NullContent, FALSE)

C1_Witness ==
  /\ EngineDone("getContextForQuery")
  /\ IsString(call.query) /\ Len(call.query.s) = MaxLen
  /\ Len(RuleSet) = MaxRules
  /\ \A i \in 1..Len(RuleSet) : \A j \in 1..Len(RuleSet[i].patterns) :
       Len(RuleSet[i].patterns[j]) > 0
  /\ TriggeredRules(call.query.s) = {}
  /\ call.outcome = Return(Null, NullContent, FALSE)

\* C2: a query that contains, in any casing, a pattern of some rule makes
\* findBestMatch return the earliest rule in declaration order that has such
\* a pattern, never a later one.
C2_EarliestRuleWins ==
  (EngineDone("findBestMatch") /\ IsString(call.query)
     /\ TriggeredRules(call.query.s) # {})
  => /\ call.outcome.kind = "return"
     /\ call.outcome.rule = arrays[RulesRef][Earliest(TriggeredRules(call.query.s))]

C2_Witness ==
  /\ EngineDone("findBestMatch") /\ IsString(call.query)
  /\ TriggeredRules(call.query.s) = {1, 2}
  /\ call.query.s # toLowerCase(call.query.s)
  /\ RuleSet[1].patterns # RuleSet[2].patterns
  /\ \E j \in 1..Len(RuleSet[1].patterns) :
       /\ RuleSet[1].patterns[j] # toLowerCase(RuleSet[1].patterns[j])
       /\ ContainsIgnoringCase(call.query.s, RuleSet[1].patterns[j])
       /\ ~includes(call.query.s, RuleSet[1].patterns[j])
  /\ call.outcome.rule = arrays[RulesRef][1]

\* a pattern with at least one character that is not whitespace
Visible(p) == ~IsBlank(p)

AllPatternsVisible ==
  \A i \in 1..Len(RuleSet) : \A j \in 1..Len(RuleSet[i].patterns) :
    Visible(RuleSet[i].patterns[j])

TriggeredFile(q) == RuleSet[Earliest(TriggeredRules(q))].promptFile

\* C3: when the query matches a rule whose document cannot be read,
\* getContextForQuery ends in an error; it returns neither the no-match
\* record nor a match with empty or null content.
C3_UnreadableDocumentIsError ==
  (EngineDone("getContextForQuery") /\ call.fresh /\ IsString(call.query)
     /\ TriggeredRules(call.query.s) # {}
     /\ files[TriggeredFile(call.query.s)] = Missing)
  => /\ call.outcome.kind = "throw"
     /\ call.outcome # Return(Null, NullContent, FALSE)
     /\ ~call.outcome.matchFound

C3_Witness ==
  /\ EngineDone("getContextForQuery") /\ call.fresh /\ IsString(call.query)
  /\ TriggeredRules(call.query.s) = {2}
  /\ files[TriggeredFile(call.query.s)] = Missing
  /\ files[RuleSet[1].promptFile] # Missing
  /\ call.outcome.kind = "throw"
  /\ call.outcome.error[1] = "Error loading context: "

\* C4: two getContextForQuery calls with the same query, with the rule set
\* and the document store unchanged from the first to the second and other
\* calls in between, end alike: same rule, same content, or both in error.
C4_SameQuerySameContext ==
  (EngineDone("getContextForQuery") /\ call.fresh
     /\ prev.set /\ prev.query = call.query)
  => /\ call.outcome.kind = prev.outcome.kind
     /\ call.outcome.rule = prev.outcome.rule
     /\ call.outcome.content = prev.outcome.content

C4_Witness ==
  /\ EngineDone("getContextForQuery") /\ call.fresh
  /\ prev.set /\ prev.query = call.query
  /\ Len(RuleSet) = 2
  /\ call.outcome.matchFound /\ call.outcome.rule = arrays[RulesRef][2]
  /\ call.outcome.content = <<RuleSet[2].promptFile, MaxVersion>>
  /\ call.outcome = prev.outcome

\* ------------------------------------------------------------ getAllRules
\* mutant: the live array is returned
getAllRules_live == [ref |-> RulesRef, arrays |-> arrays]

\* getAllRules(): return [...this.rules], a new array of the same references
getAllRules ==
  [ref |-> CopyRef, arrays |-> [arrays EXCEPT ![CopyRef] = arrays[RulesRef]]]

GetAllRules ==
  /\ running
  /\ arrays' = getAllRules.arrays
  /\ returned' = getAllRules.ref
  /\ UNCHANGED httpVars
  /\ UNCHANGED <<ruleObjs, writes, files, call, prev, running, failed,
               env, logger, issued, pool>>

\* what a caller can do with the returned array
CallerCanWrite == running /\ returned # NoRef /\ writes < MaxWrites

AddedRule ==
  [patterns |-> << <<"b">> >>, promptFile |-> Files[1], description |-> "added"]

\* rules.push({...})
ArrayPush ==
  /\ CallerCanWrite
  /\ ruleObjs' = Append(ruleObjs, AddedRule)
  /\ arrays' = [arrays EXCEPT ![returned] = Append(@, Len(ruleObjs) + 1)]
  /\ writes' = writes + 1
  /\ Changed
  /\ UNCHANGED httpVars
  /\ UNCHANGED <<returned, files, running, failed, env, logger, issued, pool>>

\* rules.pop()
ArrayPop ==
  /\ CallerCanWrite /\ Len(arrays[returned]) > 0
  /\ arrays' = [arrays EXCEPT ![returned] = SubSeq(@, 1, Len(@) - 1)]
  /\ writes' = writes + 1
  /\ Changed
  /\ UNCHANGED httpVars
  /\ UNCHANGED <<ruleObjs, returned, files, running, failed,
               env, logger, issued, pool>>

\* rules.reverse()
ArrayReverse ==
  /\ CallerCanWrite /\ Len(arrays[returned]) > 1
  /\ arrays' = [arrays EXCEPT ![returned] =
                  [i \in 1..Len(@) |-> @[Len(@) + 1 - i]]]
  /\ writes' = writes + 1
  /\ Changed
  /\ UNCHANGED httpVars
  /\ UNCHANGED <<ruleObjs, returned, files, running, failed,
               env, logger, issued, pool>>

WrittenPatterns == {<< >>, << <<"b">> >>}

\* rules[i].patterns = ps (or the same change made in place)
SetPatterns(i, ps) ==
  /\ CallerCanWrite /\ i \in 1..Len(arrays[returned])
  /\ ruleObjs[arrays[returned][i]].patterns # ps
  /\ ruleObjs' = [ruleObjs EXCEPT ![arrays[returned][i]].patterns = ps]
  /\ writes' = writes + 1
  /\ Changed
  /\ UNCHANGED httpVars
  /\ UNCHANGED <<arrays, returned, files, running, failed,
               env, logger, issued, pool>>

\* rules[i].promptFile = f
SetPromptFile(i, f) ==
  /\ CallerCanWrite /\ i \in 1..Len(arrays[returned])
  /\ ruleObjs[arrays[returned][i]].promptFile # f
  /\ ruleObjs' = [ruleObjs EXCEPT ![arrays[returned][i]].promptFile = f]
  /\ writes' = writes + 1
  /\ Changed
  /\ UNCHANGED httpVars
  /\ UNCHANGED <<arrays, returned, files, running, failed,
               env, logger, issued, pool>>

\* rules[i].description = "changed"
SetDescription(i) ==
  /\ CallerCanWrite /\ i \in 1..Len(arrays[returned])
  /\ ruleObjs[arrays[returned][i]].description # "changed"
  /\ ruleObjs' = [ruleObjs EXCEPT ![arrays[returned][i]].description = "changed"]
  /\ writes' = writes + 1
  /\ Changed
  /\ UNCHANGED httpVars
  /\ UNCHANGED <<arrays, returned, files, running, failed,
               env, logger, issued, pool>>

ArrayWrite == ArrayPush \/ ArrayPop \/ ArrayReverse

RuleWrite ==
  \/ \E i \in 1..(MaxRules + MaxWrites) : \E ps \in WrittenPatterns : SetPatterns(i, ps)
  \/ \E i \in 1..(MaxRules + MaxWrites) : \E f \in DOMAIN files : SetPromptFile(i, f)
  \/ \E i \in 1..(MaxRules + MaxWrites) : SetDescription(i)

NextRules ==
  \/ GetAllRules
  \/ ArrayPush
  \/ ArrayPop
  \/ ArrayReverse
  \/ \E i \in 1..(MaxRules + MaxWrites) : \E ps \in WrittenPatterns : SetPatterns(i, ps)
  \/ \E i \in 1..(MaxRules + MaxWrites) : \E f \in DOMAIN files : SetPromptFile(i, f)
  \/ \E i \in 1..(MaxRules + MaxWrites) : SetDescription(i)
  \/ \E q \in SmallQueries : FindBestMatch(q)
  \/ \E q \in SmallQueries : GetContextForQuery(q)
  \/ ReadSettled
  \/ Forget

SpecRules == Init /\ [][NextRules]_vars

\* ------------------------------------------------------ rule set: C5, C6
\* C5: getAllRules() returns the configured rules, as many and in
\* declaration order, and adding, removing or reordering elements of the
\* returned sequence leaves the rule set of the engine, and with it every
\* later findBestMatch, getContextForQuery and getAllRules, unchanged.
C5_ReturnedArrayIsACopy ==
  [][/\ GetAllRules =>
          /\ Len(arrays'[returned']) = Len(RuleSet)
          /\ \A i \in 1..Len(RuleSet) :
               ruleObjs'[arrays'[returned'][i]] = RuleSet[i]
          /\ RuleSet' = RuleSet
     /\ ArrayWrite =>
          /\ arrays'[RulesRef] = arrays[RulesRef]
          /\ RuleSet' = RuleSet]_vars

C5_Witness ==
  /\ returned # NoRef /\ writes = MaxWrites
  /\ Len(RuleSet) = MaxRules
  /\ Len(arrays[CopyRef]) = MaxRules - 1
  /\ arrays[CopyRef][1] = arrays[RulesRef][MaxRules]
  /\ EngineDone("findBestMatch") /\ call.fresh
  /\ call.outcome.rule = arrays[RulesRef][1]

\* C6: no change a caller makes to the value returned by getAllRules(),
\* the patterns, promptFile or description of a returned rule included,
\* alters the rule set used by later findBestMatch and getContextForQuery.
C6_ReturnedRulesAreCopies ==
  [][(ArrayWrite \/ RuleWrite) => RuleSet' = RuleSet]_vars

\* ------------------------------------------------------ tools/call adapter
\* the two builds of the tools/call handler: index.ts ("index") and the
\* session-server variant with the input check ("session")
Builds == {"index", "session"}

ToolNames == {"get_context_for_query", "list_available_contexts", "unknown_tool"}

\* request.params.arguments: absent, or an object whose query is any value
ArgsValues == {NoArgs} \cup {[present |-> TRUE, query |-> v] : v \in SmallQueries}

\* !query
Falsy(v) == v.t = "undefined" \/ (IsString(v) /\ v.s = << >>)

\* rules.map(rule => `- ${rule.description} (patterns: ...)`) on getAllRules()
RuleLines ==
  LET rules == getAllRules.arrays[getAllRules.ref] IN
    [i \in 1..Len(rules) |->
       <<ruleObjs[rules[i]].description, ruleObjs[rules[i]].patterns>>]

\* mutant: the rules are listed last to first
ContextList_reversed ==
  LET rules == getAllRules.arrays[getAllRules.ref] IN
    [i \in 1..Len(rules) |->
       <<ruleObjs[rules[Len(rules) + 1 - i]].description,
         ruleObjs[rules[Len(rules) + 1 - i]].promptFile,
         ruleObjs[rules[Len(rules) + 1 - i]].patterns>>]

\* rules.map(rule => `**${rule.description}**\nFile: ...\nPatterns: ...`)
ContextList ==
  LET rules == getAllRules.arrays[getAllRules.ref] IN
    [i \in 1..Len(rules) |->
       <<ruleObjs[rules[i]].description, ruleObjs[rules[i]].promptFile,
         ruleObjs[rules[i]].patterns>>]

NoMatchPayload(query) ==
  [kind |-> "nomatch", isError |-> FALSE,
   text |-> <<"No specific context found for query: ", query,
              "Available context types:", RuleLines>>]

\* mutant: the payload describes the first rule, not the matched one
MatchPayload_firstRule(query, o) ==
  [kind |-> "match", isError |-> FALSE,
   text |-> <<"Context found for query: ", query, "Using prompt: ",
              ruleObjs[arrays[RulesRef][1]].description, o.content>>]

MatchPayload(query, o) ==
  [kind |-> "match", isError |-> FALSE,
   text |-> <<"Context found for query: ", query, "Using prompt: ",
              ruleObjs[o.rule].description, o.content>>]

ListPayload ==
  [kind |-> "list", isError |-> FALSE,
   text |-> <<"Available Context Prompts:", ContextList>>]

\* the early return of the session variant
InvalidInputPayload ==
  [kind |-> "invalid", isError |-> FALSE,
   text |-> <<"Error: Query parameter is required and cannot be empty.">>]

\* the inner catch of the session variant
ProcessingErrorPayload(message) ==
  [kind |-> "processingError", isError |-> FALSE,
   text |-> <<"Error processing query: ", message>>]

ErrorResult(message) ==
  [kind |-> "error", isError |-> TRUE, text |-> <<"Error: ", message>>]

\* mutant: the catch block ends the process as the other handlers of the
\* file do
CatchToolError_exit(message) ==
  [response |-> ErrorResult(message), running |-> FALSE, error |-> TRUE]

\* catch (error) of the tools/call handler: the error becomes the result
\* and is passed to logResponse
CatchToolError(message) ==
  [response |-> ErrorResult(message), running |-> TRUE, error |-> TRUE]

\* the result of the switch: logResponse(requestId, result); return result
Answer(response) == [response |-> response, running |-> TRUE, error |-> FALSE]

\* handleGetContextForQuery after getContextForQuery has settled with o
HandleContext(build, query, o) ==
  IF o.kind = "throw"
  THEN IF build = "session" THEN Answer(ProcessingErrorPayload(o.error))
       ELSE CatchToolError(o.error)
  ELSE IF ~o.matchFound THEN Answer(NoMatchPayload(query))
  ELSE Answer(MatchPayload(query, o))

\* handleGetContextForQuery before the engine is called: "proceed", or the
\* answer that ends the call
BeforeEngine(build, args) ==
  IF ~args.present
  THEN [proceed |-> FALSE, kind |-> "args", end |-> CatchToolError(<<"TypeError">>)]
  ELSE IF build = "session" /\ Falsy(args.query)
  THEN [proceed |-> FALSE, kind |-> "args", end |-> Answer(InvalidInputPayload)]
  ELSE IF build = "session" /\ ~IsString(args.query)
  THEN [proceed |-> FALSE, kind |-> "args", end |-> CatchToolError(<<"TypeError">>)]
  ELSE IF build = "session" /\ IsBlank(args.query.s)
  THEN [proceed |-> FALSE, kind |-> "args", end |-> Answer(InvalidInputPayload)]
  ELSE [proceed |-> TRUE, kind |-> "none", end |-> Answer(NoResponse)]

\* run(): index.ts connects the MCP server to a transport in local mode
\* only; its production branch serves /health, / and 404
Connected(build) == build = "index" => ~isProduction(env)

\* the handler may log one more request (bound of the model)
CanLog == logger.requestId < MaxRequests

\* const requestId = this.logger.logRequest(...)
LogRequest ==
  /\ logger' = logRequest.logger
  /\ issued' = issued \cup {logRequest.id}

ToolCall(build, name, args) ==
  [IdleCall EXCEPT !.via = build, !.op = name, !.args = args,
                   !.query = args.query, !.requestId = logRequest.id,
                   !.log = <<LoggedRequest, logToolCall(logRequest.id)>>]

Finish(c, o, a) ==
  /\ call' = [c EXCEPT !.pc = "done", !.outcome = o, !.response = a.response,
                       !.log = Append(@, logResponse(c.requestId, a.error))]
  /\ running' = a.running

\* the tools/call handler up to the await of fs.readFile or to its return
CallTool(build, name, args) ==
  /\ running /\ call.pc = "idle"
  /\ Connected(build) /\ CanLog
  /\ LogRequest
  /\ LET c == ToolCall(build, name, args) IN
       CASE name = "list_available_contexts" ->
              /\ Finish(c, NotInvoked, Answer(ListPayload))
              /\ UNCHANGED failed
         [] name = "get_context_for_query" ->
              LET b == BeforeEngine(build, args)
                  o == getContextForQuery(args.query) IN
                IF ~b.proceed
                THEN /\ Finish(c, NotInvoked, b.end)
                     /\ failed' = failed \cup {b.kind}
                ELSE IF o.kind = "await"
                THEN /\ call' = [c EXCEPT !.pc = "reading", !.rule = o.rule,
                                   !.reads = 1]
                     /\ UNCHANGED <<running, failed>>
                ELSE /\ Finish(c, o, HandleContext(build, args.query, o))
                     /\ failed' = IF o.kind = "throw" THEN failed \cup {"args"}
                                  ELSE failed
         [] OTHER ->
              /\ Finish(c, NotInvoked, CatchToolError(<<"Unknown tool: ", name>>))
              /\ failed' = failed \cup {"unknown"}
  /\ UNCHANGED httpVars
  /\ UNCHANGED <<ruleObjs, arrays, returned, writes, files, prev, env, pool>>

\* fs.readFile settles and the handler builds its answer
ToolReadSettled ==
  /\ running /\ call.pc = "reading" /\ call.via \in Builds
  /\ LET o == ContextLoaded(call.rule) IN
       /\ Finish(call, o, HandleContext(call.via, call.query, o))
       /\ failed' = IF o.kind = "throw" THEN failed \cup {"load"} ELSE failed
  /\ UNCHANGED httpVars
  /\ UNCHANGED <<ruleObjs, arrays, returned, writes, files, prev,
               env, logger, issued, pool>>

\* process.on('SIGINT'): the server closes and the process exits
Sigint ==
  /\ running
  /\ running' = FALSE
  /\ UNCHANGED httpVars
  /\ UNCHANGED <<ruleObjs, arrays, returned, writes, files, call, prev, failed,
               env, logger, issued, pool>>

NextServer ==
  \/ \E build \in Builds : \E name \in ToolNames : \E args \in ArgsValues :
       CallTool(build, name, args)
  \/ ToolReadSettled
  \/ Forget
  \/ \E f \in DOMAIN files : DeleteFile(f)
  \/ \E f \in DOMAIN files : WriteFile(f, 1)
  \/ Sigint

SpecServer == Init /\ [][NextServer]_vars

\* --------------------------------------------------- adapter: C8, C9, C10
ToolDone(name) == call.pc = "done" /\ call.via \in Builds /\ call.op = name

\* a storage failure while loading the matched rule's document
IsLoadError(o) == o.kind = "throw" /\ o.error[1] = "Error loading context: "

\* C8: matching raises no error for a malformed or empty query, a missing
\* or non-string query from a tool call included; the only errors of
\* getContextForQuery are storage failures of the document load.
C8_OnlyStorageErrors ==
  (call.pc = "done" /\ call.outcome.kind = "throw") => IsLoadError(call.outcome)

\* the query of the tool call is missing, empty or whitespace-only
QueryAbsentOrBlank(args) ==
  \/ ~args.present
  \/ args.query.t = "undefined"
  \/ IsString(args.query) /\ IsBlank(args.query.s)

\* C9: a get_context_for_query tool call whose query is missing, empty or
\* whitespace-only is answered with an error payload, and the engine is not
\* invoked for it.
C9_AdapterRejectsBlankQuery ==
  (call.via \in Builds /\ call.op = "get_context_for_query"
     /\ QueryAbsentOrBlank(call.args))
  => /\ call.pc = "done"
     /\ call.outcome = NotInvoked
     /\ call.response.kind \in {"error", "invalid"}

\* the answer to a well-formed query, from the rule set and the store alone
ExpectedKinds(q) ==
  IF TriggeredRules(q) = {} THEN {"nomatch"}
  ELSE IF files[TriggeredFile(q)] = Missing THEN {"error", "processingError"}
  ELSE {"match"}

ExpectedText(q) ==
  IF TriggeredRules(q) = {}
  THEN <<"No specific context found for query: ", Str(q),
         "Available context types:",
         [i \in 1..Len(RuleSet) |-> <<RuleSet[i].description, RuleSet[i].patterns>>]>>
  ELSE <<"Context found for query: ", Str(q), "Using prompt: ",
         RuleSet[Earliest(TriggeredRules(q))].description,
         files[TriggeredFile(q)]>>

WellFormed(args) ==
  args.present /\ IsString(args.query) /\ ~IsBlank(args.query.s)

AnsweredAsExpected ==
  (ToolDone("get_context_for_query") /\ WellFormed(call.args))
  => /\ call.response.kind \in ExpectedKinds(call.query.s)
     /\ call.response.kind \in {"match", "nomatch"}
          => call.response.text = ExpectedText(call.query.s)

\* a step of the tools/call handler: its start, or its continuation after
\* the read
ToolStep ==
  \/ call.pc = "idle" /\ call'.pc # "idle" /\ call'.via \in Builds
  \/ call.pc = "reading" /\ call'.pc = "done" /\ call.via \in Builds

\* C10: a tool call, failed ones included (document load failure, unknown
\* tool name, missing arguments), does not end the server process and
\* leaves the rule set as it was constructed, and every well-formed query
\* is answered from the rule set and the store alone, whatever failed
\* before it.
C10_FailedCallsLeaveServerIntact ==
  [][ToolStep => /\ running'
                 /\ RuleSet' = RuleSet
                 /\ arrays'[RulesRef] = arrays[RulesRef]
                 /\ AnsweredAsExpected']_vars

C10_Witness ==
  /\ running
  /\ failed = {"load", "unknown", "args"}
  /\ ToolDone("get_context_for_query") /\ WellFormed(call.args)
  /\ call.response.kind = "match"
  /\ call.response.text = ExpectedText(call.query.s)

\* ------------------------------------------------------ adapter: C11, C12
\* the lookup of the tool call succeeded: getContextForQuery returned
LookupReturned ==
  ToolDone("get_context_for_query") /\ call.outcome.kind = "return"

\* position in the rule set of the rule object r
PositionOf(r) == CHOOSE i \in 1..Len(arrays[RulesRef]) : arrays[RulesRef][i] = r

\* C11: a successful lookup of the query-context tool is answered with
\* exactly one of two text payloads: on a match, the matched rule's
\* description and the full content of its document; on no match, the
\* description and patterns of every rule of the rule set.
C11_LookupPayload ==
  LookupReturned =>
    /\ ~call.response.isError
    /\ call.response.kind = IF call.outcome.matchFound THEN "match" ELSE "nomatch"
    /\ call.outcome.matchFound =>
          LET i == PositionOf(call.outcome.rule) IN
            /\ Len(call.response.text) = 5
            /\ call.response.text[4] = RuleSet[i].description
            /\ call.response.text[5] = call.outcome.content
            /\ call.response.text[5] # Missing
            /\ call.fresh => call.response.text[5] = files[RuleSet[i].promptFile]
    /\ ~call.outcome.matchFound =>
          /\ Len(call.response.text) = 4
          /\ Len(call.response.text[4]) = Len(RuleSet)
          /\ \A i \in 1..Len(RuleSet) :
                call.response.text[4][i] =
                  <<RuleSet[i].description, RuleSet[i].patterns>>

C11_Witness ==
  /\ LookupReturned /\ call.outcome.matchFound /\ call.fresh
  /\ Len(RuleSet) = MaxRules
  /\ PositionOf(call.outcome.rule) = MaxRules
  /\ call.response.text[5] = files[RuleSet[MaxRules].promptFile]

\* C12: the list-contexts tool answers with every rule of the rule set
\* exactly once, in declaration order, each with its description, document
\* reference and full pattern list, and it reads no document.
C12_ListEnumeratesRules ==
  (call.via \in Builds /\ call.op = "list_available_contexts")
  => /\ call.pc = "done"
     /\ call.outcome = NotInvoked
     /\ call.response.kind = "list" /\ ~call.response.isError
     /\ Len(call.response.text[2]) = Len(RuleSet)
     /\ \A i \in 1..Len(RuleSet) :
           call.response.text[2][i] =
             <<RuleSet[i].description, RuleSet[i].promptFile, RuleSet[i].patterns>>

C12_Witness ==
  /\ ToolDone("list_available_contexts")
  /\ Len(RuleSet) = MaxRules
  /\ Len(call.response.text[2]) = MaxRules
  /\ call.response.text[2][1] # call.response.text[2][MaxRules]

\* ---------------------------------------------------------- caching: C14
\* C14: after one successful getContextForQuery for a rule, a later
\* getContextForQuery that matches the same rule takes the content from an
\* in-memory cache: it starts no read of the document.
C14_SecondLoadFromCache ==
  (prev.set /\ prev.outcome.kind = "return" /\ prev.outcome.matchFound
     /\ call.via = "engine" /\ call.op = "getContextForQuery"
     /\ call.rule = prev.outcome.rule)
  => call.pc # "reading"

\* ------------------------------------------------------ concurrent sessions
Slots == 1..MaxCalls

AllIdle == \A i \in Slots : pool[i].pc = "idle"

\* environments that differ in LOG_LEVEL only
LogEnvs == {[DefaultEnv EXCEPT !.LOG_LEVEL = l] : l \in LogLevelValues}

\* the tools/call handler of a session server for get_context_for_query,
\* up to the await of fs.readFile or to its return; the sessions share the
\* engine and the logger
SessionCallTool(i, args) ==
  /\ running /\ pool[i].pc = "idle" /\ CanLog
  /\ LogRequest
  /\ LET c == ToolCall("session", "get_context_for_query", args)
         b == BeforeEngine("session", args)
         o == getContextForQuery(args.query)
         a == IF ~b.proceed THEN b.end
              ELSE HandleContext("session", args.query, o)
     IN IF b.proceed /\ o.kind = "await"
        THEN /\ pool' = [pool EXCEPT ![i] =
                          [c EXCEPT !.pc = "reading", !.rule = o.rule,
                             !.reads = 1]]
             /\ UNCHANGED running
        ELSE /\ pool' = [pool EXCEPT ![i] =
                          [c EXCEPT !.pc = "done",
                                    !.outcome = IF b.proceed THEN o ELSE NotInvoked,
                                    !.response = a.response,
                                    !.log = Append(@, logResponse(c.requestId,
                                                                  a.error))]]
             /\ running' = a.running
  /\ UNCHANGED httpVars
  /\ UNCHANGED <<ruleObjs, arrays, returned, writes, files, call, prev, failed, env>>

\* fs.readFile of the call on slot i settles and its handler answers
SessionReadSettled(i) ==
  /\ running /\ pool[i].pc = "reading"
  /\ LET o == ContextLoaded(pool[i].rule)
         a == HandleContext("session", pool[i].query, o)
     IN /\ pool' = [pool EXCEPT ![i] =
                      [@ EXCEPT !.pc = "done", !.outcome = o,
                                !.response = a.response,
                                !.log = Append(@, logResponse(pool[i].requestId,
                                                              a.error))]]
        /\ running' = a.running
  /\ UNCHANGED httpVars
  /\ UNCHANGED <<ruleObjs, arrays, returned, writes, files, call, prev, failed,
                 env, logger, issued>>

\* the client of slot i takes the answer
SessionForget(i) ==
  /\ pool[i].pc = "done"
  /\ pool' = [pool EXCEPT ![i] = IdleCall]
  /\ UNCHANGED httpVars
  /\ UNCHANGED <<ruleObjs, arrays, returned, writes, files, call, prev, running,
                 failed, env, logger, issued>>

\* rule sets and tool arguments of the concurrent sessions
ConcPatternLists == {<<<<"a">>>>, <<<<"b">>>>}

ConcArgs ==
  {[present |-> TRUE, query |-> v] :
     v \in {Str(<< >>), Str(<<"a">>), Str(<<"b">>), Undefined}}

InitConc == env \in LogEnvs /\ InitWith(ConcPatternLists)

NextConc ==
  \/ \E i \in Slots : \E args \in ConcArgs : SessionCallTool(i, args)
  \/ \E i \in Slots : SessionReadSettled(i)
  \/ \E i \in Slots : SessionForget(i)
  \/ \E f \in DOMAIN files : AllIdle /\ DeleteFile(f)

SpecConc == InitConc /\ [][NextConc]_vars

\* ----------------------------------------------------- concurrency: C13
\* the outcome of call c is the one getContextForQuery has for its query
\* when it runs alone against the rule set and the store
AloneOutcome(c) ==
  LET q == c.query.s IN
    IF TriggeredRules(q) = {}
    THEN c.outcome = Return(Null, NullContent, FALSE)
    ELSE IF files[TriggeredFile(q)] = Missing
    THEN IsLoadError(c.outcome)
    ELSE c.outcome = Return(arrays[RulesRef][Earliest(TriggeredRules(q))],
                            files[TriggeredFile(q)], TRUE)

\* C13: overlapping getContextForQuery calls need no lock: in every
\* interleaving of their steps, each call that reaches the engine ends
\* with the result it would have alone against the same rule set and store.
C13_OverlappingCallsAsAlone ==
  \A i \in Slots :
    /\ (pool[i].pc = "done" /\ pool[i].outcome.kind # "none")
         => AloneOutcome(pool[i])
    /\ pool[i].pc = "reading"
         => pool[i].rule =
              arrays[RulesRef][Earliest(TriggeredRules(pool[i].query.s))]

\* the call that started second overtook the first, on another rule
C13_Witness ==
  /\ pool[1].pc = "done" /\ pool[1].outcome.matchFound
  /\ pool[1].requestId = toString(2)
  /\ pool[2].pc = "reading" /\ pool[2].requestId = toString(1)
  /\ pool[2].rule # pool[1].outcome.rule
  /\ pool[1].outcome.content = files[ruleObjs[pool[1].outcome.rule].promptFile]

\* --------------------------------------------------------- logger: C17
\* C17: every logRequest call returns an id no earlier call of the process
\* returned, the ids being 1, 2, 3, ... in call order, at every log level
\* and across the overlapping requests of the sessions sharing the logger.
C17_RequestIdsUnique ==
  [][\A i \in Slots :
        (pool[i].pc = "idle" /\ pool'[i].pc # "idle")
        => /\ pool'[i].requestId \notin issued
           /\ pool'[i].requestId = toString(Cardinality(issued) + 1)
           /\ \A j \in Slots \ {i} :
                 pool'[j].pc # "idle" => pool'[j].requestId # pool'[i].requestId]_vars

C17_Witness ==
  /\ logger.logLevel = LogLevel.ERROR
  /\ Cardinality(issued) = MaxRequests
  /\ \A i \in Slots : pool[i].pc = "reading"
  /\ \A i, j \in Slots : i # j => pool[i].requestId # pool[j].requestId

\* ------------------------------------------------------ resource handlers
Scheme == "prompt://"

\* names a client may put after the scheme
RefPool == {"f1.md", "f2.md", "none.md", "../env.txt"}

\* request.params.uri: a string, here the sequence of its parts
UriPool ==
  {<<Scheme, r>> : r \in RefPool} \cup {<<"file://", "f1.md">>, <<Scheme>>}

\* uri.startsWith('prompt://')
startsWith(uri, prefix) == Len(uri) >= 1 /\ uri[1] = prefix

\* uri.replace('prompt://', ''): the first occurrence is removed
RECURSIVE replace(_, _)
replace(uri, part) ==
  IF uri = << >> THEN << >>
  ELSE IF Head(uri) = part THEN Tail(uri)
  ELSE <<Head(uri)>> \o replace(Tail(uri), part)

\* the string made of the parts left (none or one)
Joined(parts) == IF parts = << >> THEN "" ELSE parts[1]

\* resources.map(rule => ({uri: `prompt://${rule.promptFile}`, ...}))
ResourceList ==
  LET rules == getAllRules.arrays[getAllRules.ref] IN
    [kind |-> "resources", isError |-> FALSE,
     text |-> [i \in 1..Len(rules) |->
                 [uri |-> <<Scheme, ruleObjs[rules[i]].promptFile>>,
                  name |-> ruleObjs[rules[i]].promptFile,
                  description |-> ruleObjs[rules[i]].description,
                  mimeType |-> "text/markdown"]]]

\* mutant: the content is labelled as plain text
ContentsResult_plain(uri, content) ==
  [kind |-> "contents", isError |-> FALSE,
   text |-> <<[uri |-> uri, mimeType |-> "text/plain", text |-> content]>>]

\* { contents: [{ uri, mimeType: 'text/markdown', text: content }] }
ContentsResult(uri, content) ==
  [kind |-> "contents", isError |-> FALSE,
   text |-> <<[uri |-> uri, mimeType |-> "text/markdown", text |-> content]>>]

\* throw error: the request is answered with a JSON-RPC error
ThrownError(message) ==
  [kind |-> "rpcError", isError |-> TRUE, text |-> message]

\* the resources/list handler
ListResources ==
  /\ running /\ call.pc = "idle" /\ CanLog
  /\ LogRequest
  /\ call' = [IdleCall EXCEPT !.pc = "done", !.via = "resources",
                !.op = "resources/list", !.requestId = logRequest.id,
                !.response = ResourceList,
                !.log = <<LoggedRequest, logResponse(logRequest.id, FALSE)>>]
  /\ UNCHANGED httpVars
  /\ UNCHANGED <<ruleObjs, arrays, returned, writes, files, prev, running, failed,
                 env, pool>>

\* the resources/read handler up to the await of fs.readFile or to its throw
ReadResource(uri) ==
  /\ running /\ call.pc = "idle" /\ CanLog
  /\ LogRequest
  /\ LET c == [IdleCall EXCEPT !.via = "resources", !.op = "resources/read",
                 !.requestId = logRequest.id, !.uri = uri,
                 !.log = <<LoggedRequest, logResourceAccess(logRequest.id)>>] IN
       call' = IF ~startsWith(uri, Scheme)
               THEN [c EXCEPT !.pc = "done",
                       !.response = ThrownError(<<"Unsupported URI scheme: ", uri>>),
                       !.log = Append(@, logResponse(logRequest.id, TRUE))]
               ELSE [c EXCEPT !.pc = "reading",
                       !.file = Joined(replace(uri, Scheme)), !.reads = 1]
  /\ UNCHANGED httpVars
  /\ UNCHANGED <<ruleObjs, arrays, returned, writes, files, prev, running, failed,
                 env, pool>>

\* fs.readFile settles and the resources/read handler returns or throws
ResourceReadSettled ==
  /\ running /\ call.pc = "reading" /\ call.via = "resources"
  /\ LET l == loadPromptContent(call.file) IN
       call' = [call EXCEPT !.pc = "done", !.outcome = l,
                  !.response =
                    IF l.kind = "throw"
                    THEN ThrownError(<<"Failed to read resource ", call.uri,
                                       ": ", l.error>>)
                    ELSE ContentsResult(call.uri, l.content),
                  !.log = Append(@, logResponse(call.requestId,
                                                l.kind = "throw"))]
  /\ UNCHANGED httpVars
  /\ UNCHANGED <<ruleObjs, arrays, returned, writes, files, prev, running, failed,
                 env, logger, issued, pool>>

NextResources ==
  \/ ListResources
  \/ \E uri \in UriPool : ReadResource(uri)
  \/ ResourceReadSettled
  \/ Forget
  \/ \E f \in DOMAIN files : DeleteFile(f)
  \/ \E f \in DOMAIN files : \E v \in 1..MaxVersion : WriteFile(f, v)

SpecResources == Init /\ [][NextResources]_vars

\* ------------------------------------------------------ resources: C15, C16
ResourceDone(op) == call.pc = "done" /\ call.via = "resources" /\ call.op = op

\* the uris resources/list announces for the rule set
ListedUris == {<<Scheme, RuleSet[i].promptFile>> : i \in 1..Len(RuleSet)}

\* C15: resources/list returns one resource per rule, with uri 'prompt://'
\* followed by the rule's promptFile and mimeType text/markdown, and
\* resources/read of a listed uri returns, as text/markdown, the raw text
\* of that rule's document as loadPromptContent gives it.
C15_ResourceRoundTrip ==
  /\ ResourceDone("resources/list") =>
       /\ call.response.kind = "resources"
       /\ Len(call.response.text) = Len(RuleSet)
       /\ \A i \in 1..Len(RuleSet) :
             /\ call.response.text[i].uri = <<Scheme, RuleSet[i].promptFile>>
             /\ call.response.text[i].mimeType = "text/markdown"
  /\ (ResourceDone("resources/read") /\ call.fresh /\ call.uri \in ListedUris) =>
       /\ call.outcome = loadPromptContent(call.uri[2])
       /\ IF files[call.uri[2]] = Missing
          THEN call.response.kind = "rpcError"
          ELSE call.response =
                 [kind |-> "contents", isError |-> FALSE,
                  text |-> <<[uri |-> call.uri, mimeType |-> "text/markdown",
                              text |-> files[call.uri[2]]]>>]

C15_Witness ==
  /\ ResourceDone("resources/read") /\ call.fresh
  /\ Len(RuleSet) = MaxRules
  /\ call.uri = <<Scheme, RuleSet[MaxRules].promptFile>>
  /\ call.response.kind = "contents"
  /\ call.response.text[1].text = <<RuleSet[MaxRules].promptFile, MaxVersion>>

\* the argument of the loadPromptContent call in flight
LoadArgument ==
  IF call.via = "resources" THEN call.file ELSE ruleObjs[call.rule].promptFile

\* C16: every reference that reaches loadPromptContent is the promptFile of
\* a rule of the rule set and resolves inside the prompts directory,
\* references taken from a resources/read uri included.
C16_OnlyRuleDocumentsAreRead ==
  call.pc = "reading" =>
    /\ \E i \in 1..Len(RuleSet) : RuleSet[i].promptFile = LoadArgument
    /\ LET filePath == join(promptsDir, split(LoadArgument)) IN
         /\ Len(filePath) > Len(promptsDir)
         /\ SubSeq(filePath, 1, Len(promptsDir)) = promptsDir

\* --------------------------------------------------- configured rule set
\* the patterns of the one rule of prompt-matcher.ts, in declaration order
ConfiguredPatterns ==
  <<
   <<"a", "u", "t", "h", "o", "r", "i", "z", "a", "t", "i", "o", "n", " ",
     "m", "o", "d", "e", "l">>,
   <<"a", "u", "t", "h", " ", "m", "o", "d", "e", "l">>,
   <<"a", "c", "c", "e", "s", "s", " ", "c", "o", "n", "t", "r", "o", "l">>,
   <<"r", "b", "a", "c">>,
   <<"a", "b", "a", "c">>,
   <<"p", "e", "r", "m", "i", "s", "s", "i", "o", "n">>,
   <<"r", "o", "l", "e", " ", "b", "a", "s", "e", "d">>,
   <<"a", "t", "t", "r", "i", "b", "u", "t", "e", " ", "b", "a", "s", "e",
     "d">>,
   <<"a", "u", "t", "h", "e", "n", "t", "i", "c", "a", "t", "i", "o", "n">>,
   <<"a", "u", "t", "h">>,
   <<"s", "e", "c", "u", "r", "i", "t", "y", " ", "m", "o", "d", "e", "l">>,
   <<"o", "p", "e", "n", "f", "g", "a">>,
   <<"o", "p", "e", "n", "f", "g", "a", " ", "m", "o", "d", "e", "l">>,
   <<"o", "p", "e", "n", "f", "g", "a", " ", "a", "u", "t", "h", "o", "r",
     "i", "z", "a", "t", "i", "o", "n">>,
   <<"o", "p", "e", "n", "f", "g", "a", " ", "a", "u", "t", "h">>,
   <<"o", "p", "e", "n", "f", "g", "a", " ", "d", "s", "l">>,
   <<"o", "p", "e", "n", "f", "g", "a", " ", "s", "c", "h", "e", "m", "a">>,
   <<"o", "p", "e", "n", "f", "g", "a", " ", "r", "e", "l", "a", "t", "i",
     "o", "n", "s">>,
   <<"o", "p", "e", "n", "f", "g", "a", " ", "t", "y", "p", "e", "s">>,
   <<"z", "a", "n", "z", "i", "b", "a", "r">>,
   <<"r", "e", "l", "a", "t", "i", "o", "n", "s", "h", "i", "p", " ", "b",
     "a", "s", "e", "d", " ", "a", "c", "c", "e", "s", "s", " ", "c", "o",
     "n", "t", "r", "o", "l">>,
   <<"r", "e", "b", "a", "c">>,
   <<"f", "i", "n", "e", " ", "g", "r", "a", "i", "n", "e", "d", " ", "a",
     "c", "c", "e", "s", "s", " ", "c", "o", "n", "t", "r", "o", "l">>,
   <<"f", "g", "a">>,
   <<"t", "u", "p", "l", "e">>,
   <<"r", "e", "l", "a", "t", "i", "o", "n", "s", "h", "i", "p", " ", "t",
     "u", "p", "l", "e">>,
   <<"a", "u", "t", "h", "o", "r", "i", "z", "a", "t", "i", "o", "n", " ",
     "t", "u", "p", "l", "e">>,
   <<"u", "s", "e", "r", " ", "r", "e", "l", "a", "t", "i", "o", "n", " ",
     "o", "b", "j", "e", "c", "t">>,
   <<"p", "e", "r", "m", "i", "s", "s", "i", "o", "n", " ", "c", "h", "e",
     "c", "k">>,
   <<"c", "a", "n", " ", "u", "s", "e", "r">>,
   <<"a", "c", "c", "e", "s", "s", " ", "c", "h", "e", "c", "k">>
  >>

ConfiguredFile == "authorization-model.md"

ConfiguredDescription == "Author authorization models with OpenFGA"

\* private rules: PromptRule[] = [...]
ConfiguredRules ==
  <<[patterns |-> ConfiguredPatterns, promptFile |-> ConfiguredFile,
     description |-> ConfiguredDescription]>>

\* the trigger terms the README lists under "Automatic OpenFGA Detection"
ReadmeTerms ==
  {
   <<"o", "p", "e", "n", "f", "g", "a">>,
   <<"z", "a", "n", "z", "i", "b", "a", "r">>,
   <<"r", "e", "b", "a", "c">>,
   <<"f", "g", "a">>,
   <<"a", "u", "t", "h", "o", "r", "i", "z", "a", "t", "i", "o", "n", " ",
     "m", "o", "d", "e", "l">>,
   <<"a", "u", "t", "h", " ", "m", "o", "d", "e", "l">>,
   <<"a", "c", "c", "e", "s", "s", " ", "c", "o", "n", "t", "r", "o", "l">>,
   <<"r", "e", "l", "a", "t", "i", "o", "n", "s", "h", "i", "p", " ", "t",
     "u", "p", "l", "e">>,
   <<"u", "s", "e", "r", " ", "r", "e", "l", "a", "t", "i", "o", "n", " ",
     "o", "b", "j", "e", "c", "t">>,
   <<"p", "e", "r", "m", "i", "s", "s", "i", "o", "n", " ", "c", "h", "e",
     "c", "k">>,
   <<"c", "a", "n", " ", "u", "s", "e", "r">>,
   <<"a", "c", "c", "e", "s", "s", " ", "c", "h", "e", "c", "k">>,
   <<"r", "b", "a", "c">>,
   <<"a", "b", "a", "c">>,
   <<"p", "e", "r", "m", "i", "s", "s", "i", "o", "n">>,
   <<"r", "o", "l", "e", " ", "b", "a", "s", "e", "d">>,
   <<"a", "t", "t", "r", "i", "b", "u", "t", "e", " ", "b", "a", "s", "e",
     "d">>,
   <<"a", "u", "t", "h", "e", "n", "t", "i", "c", "a", "t", "i", "o", "n">>,
   <<"s", "e", "c", "u", "r", "i", "t", "y", " ", "m", "o", "d", "e", "l">>,
   <<"f", "i", "n", "e", " ", "g", "r", "a", "i", "n", "e", "d", " ", "a",
     "c", "c", "e", "s", "s", " ", "c", "o", "n", "t", "r", "o", "l">>,
   <<"r", "e", "l", "a", "t", "i", "o", "n", "s", "h", "i", "p", " ", "b",
     "a", "s", "e", "d", " ", "a", "c", "c", "e", "s", "s", " ", "c", "o",
     "n", "t", "r", "o", "l">>,
   <<"o", "p", "e", "n", "f", "g", "a", " ", "d", "s", "l">>,
   <<"o", "p", "e", "n", "f", "g", "a", " ", "s", "c", "h", "e", "m", "a">>,
   <<"o", "p", "e", "n", "f", "g", "a", " ", "r", "e", "l", "a", "t", "i",
     "o", "n", "s">>,
   <<"o", "p", "e", "n", "f", "g", "a", " ", "t", "y", "p", "e", "s">>,
   <<"a", "u", "t", "h", "o", "r", "i", "z", "a", "t", "i", "o", "n", " ",
     "t", "u", "p", "l", "e">>
  }

\* the queries the README and the scenarios give as triggering
ExampleQueries ==
  {
   <<"H", "o", "w", " ", "d", "o", " ", "I", " ", "c", "r", "e", "a", "t",
     "e", " ", "a", "n", " ", "O", "p", "e", "n", "F", "G", "A", " ", "a",
     "u", "t", "h", "o", "r", "i", "z", "a", "t", "i", "o", "n", " ", "m",
     "o", "d", "e", "l", "?">>,
   <<"R", "B", "A", "C", " ", "v", "s", " ", "A", "B", "A", "C">>,
   <<"C", "r", "e", "a", "t", "e", " ", "a", "n", " ", "a", "u", "t", "h",
     "o", "r", "i", "z", "a", "t", "i", "o", "n", " ", "m", "o", "d", "e",
     "l">>,
   <<"O", "p", "e", "n", "F", "G", "A", " ", "r", "e", "l", "a", "t", "i",
     "o", "n", "s", "h", "i", "p", " ", "t", "u", "p", "l", "e", "s">>,
   <<"Z", "a", "n", "z", "i", "b", "a", "r", " ", "i", "m", "p", "l", "e",
     "m", "e", "n", "t", "a", "t", "i", "o", "n">>,
   <<"R", "e", "B", "A", "C", " ", "w", "i", "t", "h", " ", "O", "p", "e",
     "n", "F", "G", "A">>,
   <<"P", "e", "r", "m", "i", "s", "s", "i", "o", "n", " ", "c", "h", "e",
     "c", "k", "s">>
  }

WeatherQuery ==
  <<"W", "h", "a", "t", "'", "s", " ", "t", "h", "e", " ", "w", "e", "a",
    "t", "h", "e", "r", " ", "t", "o", "d", "a", "y", "?">>

RbacVsAbac ==
  <<"R", "B", "A", "C", " ", "v", "s", " ", "A", "B", "A", "C">>

Range(q) == {q[i] : i \in 1..Len(q)}

TriggerTerms == Range(ConfiguredPatterns) \cup ReadmeTerms

UpperChar(c) ==
  IF \E i \in 1..Len(LowerLetters) : LowerLetters[i] = c
  THEN UpperLetters[CHOOSE i \in 1..Len(LowerLetters) : LowerLetters[i] = c]
  ELSE c

\* a term in lower case, in upper case and capitalised
Casings(term) ==
  {term, [i \in 1..Len(term) |-> UpperChar(term[i])],
   [i \in 1..Len(term) |-> IF i = 1 THEN UpperChar(term[i]) ELSE term[i]]}

\* a term alone and inside a sentence
Sentences(term) ==
  {term, <<"E", "x", "p", "l", "a", "i", "n", " ">> \o term \o <<"?">>}

ConfiguredQueries ==
  UNION {UNION {Sentences(c) : c \in Casings(t)} : t \in TriggerTerms}
    \cup ExampleQueries \cup {WeatherQuery}

\* new PromptMatcher() as shipped, with its document in the prompts directory
InitConfigured ==
  /\ env = DefaultEnv
  /\ ruleObjs = ConfiguredRules
  /\ arrays = <<<<1>>, << >> >>
  /\ returned = NoRef
  /\ writes = 0
  /\ files = [f \in {ConfiguredFile} |-> <<f, 1>>]
  /\ call = IdleCall
  /\ prev = NoPrev
  /\ running = TRUE
  /\ failed = {}
  /\ logger = NewLogger(env)
  /\ issued = {}
  /\ pool = [i \in 1..MaxCalls |-> IdleCall]
  /\ sessionServers = NoSessions
  /\ requests = [i \in 1..MaxCalls |-> IdleRequest]
  /\ pairs = << >>

NextConfigured ==
  \/ \E q \in ConfiguredQueries : GetContextForQuery(Str(q))
  \/ ReadSettled
  \/ Forget
  \/ \E f \in DOMAIN files : \E v \in 1..MaxVersion : WriteFile(f, v)

SpecConfigured == InitConfigured /\ [][NextConfigured]_vars

\* C18: with the configured rule set, every query that contains a
\* configured or README-documented trigger term in any casing returns the
\* single rule with the full text of its document, and the query
\* "What's the weather today?" returns matchFound=false with content null.
C18_ConfiguredTriggers ==
  (EngineDone("getContextForQuery") /\ call.fresh) =>
    /\ (\E t \in TriggerTerms : ContainsIgnoringCase(call.query.s, t))
         => call.outcome = Return(arrays[RulesRef][1], files[ConfiguredFile], TRUE)
    /\ call.query.s = WeatherQuery
         => call.outcome = Return(Null, NullContent, FALSE)

C18_Witness ==
  /\ EngineDone("getContextForQuery") /\ call.fresh
  /\ call.query.s = RbacVsAbac
  /\ call.outcome.matchFound
  /\ call.outcome.content = <<ConfiguredFile, MaxVersion>>

\* ------------------------------------------------------------- restarts
\* the server process is started again, with environment e: the
\* constructors run, the calls of the old process are gone; the store and
\* what a client remembers of earlier answers stay
Restart(e) ==
  /\ e # env
  /\ env' = e
  /\ logger' = NewLogger(e)
  /\ issued' = {}
  /\ call' = IdleCall
  /\ pool' = [i \in 1..MaxCalls |-> IdleCall]
  /\ running' = TRUE
  /\ returned' = NoRef
  /\ writes' = 0
  /\ failed' = {}
  /\ sessionServers' = NoSessions
  /\ requests' = [i \in 1..MaxCalls |-> IdleRequest]
  /\ pairs' = << >>
  /\ UNCHANGED <<ruleObjs, arrays, files, prev>>

InitEnv == env \in EnvPool /\ InitWith(ConcPatternLists)

NextEnv ==
  \/ \E build \in Builds : \E args \in ConcArgs :
       CallTool(build, "get_context_for_query", args)
  \/ ToolReadSettled
  \/ Consume
  \/ \E e \in EnvPool : Restart(e)
  \/ \E f \in DOMAIN files : DeleteFile(f)

SpecEnv == InitEnv /\ [][NextEnv]_vars

\* -------------------------------------------------- environment: C19
\* C19: two runs that differ in LOG_LEVEL or in the production signal
\* (PORT, RAILWAY_ENVIRONMENT, NODE_ENV) give, for the same query against
\* the same rule set and store, the same rule, content and matchFound.
C19_EnvironmentDoesNotChangeResults ==
  (/\ call.pc = "done" /\ call.op = "get_context_for_query" /\ call.fresh
   /\ call.outcome.kind # "none"
   /\ prev.set /\ prev.query = call.query /\ prev.env # env)
  => /\ call.outcome.kind = prev.outcome.kind
     /\ call.outcome.rule = prev.outcome.rule
     /\ call.outcome.content = prev.outcome.content
     /\ call.outcome.matchFound = prev.outcome.matchFound

C19_Witness ==
  /\ call.pc = "done" /\ call.op = "get_context_for_query" /\ call.fresh
  /\ prev.set /\ prev.query = call.query
  /\ isProduction(env) /\ ~isProduction(prev.env)
  /\ logger.logLevel = LogLevel.ERROR /\ LevelOf(prev.env) = LogLevel.DEBUG
  /\ call.outcome.matchFound /\ call.outcome = prev.outcome

\* ------------------------------------------------------ side effects: C20
\* C20: findBestMatch starts no document read and leaves the rule set
\* (the rules, their order, each rule's patterns, promptFile and
\* description) as it was, for every query, matching or not.
C20_FindBestMatchHasNoSideEffects ==
  [][(call.pc = "idle" /\ call'.pc # "idle" /\ call'.op = "findBestMatch")
     => /\ arrays'[RulesRef] = arrays[RulesRef]
        /\ ruleObjs' = ruleObjs
        /\ RuleSet' = RuleSet
        /\ files' = files
        /\ call'.pc = "done"]_vars

C20_Witness ==
  /\ EngineDone("findBestMatch")
  /\ Len(RuleSet) = MaxRules
  /\ call.outcome.rule = arrays[RulesRef][MaxRules]
  /\ Len(RuleSet[MaxRules].patterns) = MaxPatterns

\* ------------------------------------------------- order of patterns: C21
\* the orders in which the patterns of one rule can be written
PermutedPatterns(patterns) ==
  {[i \in 1..Len(patterns) |-> patterns[f[i]]] :
     f \in Permutations(1..Len(patterns))}

\* the rule objects with the patterns of every rule in some order
PermutedRuleObjs ==
  {[i \in DOMAIN ruleObjs |-> [ruleObjs[i] EXCEPT !.patterns = c[i]]] :
     c \in {d \in [DOMAIN ruleObjs ->
                     UNION {PermutedPatterns(ruleObjs[i].patterns) :
                              i \in DOMAIN ruleObjs}] :
              \A i \in DOMAIN ruleObjs :
                d[i] \in PermutedPatterns(ruleObjs[i].patterns)}}

\* C21: permuting the patterns inside any rule leaves the rule returned by
\* findBestMatch unchanged, for every query and every rule set
C21_PatternOrderIrrelevant ==
  (EngineDone("findBestMatch") /\ call.outcome.kind = "return") =>
    \A objs \in PermutedRuleObjs :
      ScanRules(toLowerCase(call.query.s), arrays[RulesRef], objs, 1)
        = call.outcome.rule

\* a rule was returned whose first pattern the query does not contain
C21_Witness ==
  /\ EngineDone("findBestMatch") /\ call.outcome.kind = "return"
  /\ call.outcome.rule # Null
  /\ Len(ruleObjs[call.outcome.rule].patterns) >= 2
  /\ ~PatternHit(toLowerCase(call.query.s),
                 ruleObjs[call.outcome.rule].patterns[1])
  /\ \E objs \in PermutedRuleObjs : objs # ruleObjs

\* ------------------------------------------------- the returned record: C25
\* C25: every value returned by getContextForQuery has matchFound true iff
\* rule is non-null iff content is non-null, and when matchFound is true the
\* content is the one loaded for the promptFile of that rule in this call
C25_ReturnedRecordCoherent ==
  (EngineDone("getContextForQuery") /\ call.outcome.kind = "return") =>
    /\ call.outcome.matchFound <=> call.outcome.rule # Null
    /\ call.outcome.matchFound <=> call.outcome.content # NullContent
    /\ (call.outcome.matchFound /\ call.fresh) =>
         /\ call.outcome.rule = call.rule
         /\ call.outcome.content =
              readFile(join(promptsDir,
                            split(ruleObjs[call.outcome.rule].promptFile)))

\* a match on the second rule was returned with the text of its document
C25_Witness ==
  /\ EngineDone("getContextForQuery") /\ call.outcome.kind = "return"
  /\ call.fresh /\ call.outcome.matchFound
  /\ Len(RuleSet) = 2 /\ call.outcome.rule = arrays[RulesRef][2]
  /\ RuleSet[1].promptFile # RuleSet[2].promptFile
  /\ call.outcome.content # NullContent

\* ------------------------------------------------ errors of tools/call: C26
\* the tool names that the switch of the tools/call handler knows
KnownTools == {"get_context_for_query", "list_available_contexts"}

\* the message of the error that the handling of the finished call raised
RaisedMessage ==
  IF call.op \notin KnownTools THEN <<"Unknown tool: ", call.op>>
  ELSE call.outcome.error

\* C26: every error raised while handling a tools/call request (unknown
\* tool name, document load failure of a matched rule) is returned as a
\* payload flagged isError: true whose text carries the error message, and
\* for an unknown tool name the matcher engine is not invoked.
C26_ToolErrorsAreFlagged ==
  (call.pc = "done" /\ call.via \in Builds
     /\ (call.op \notin KnownTools \/ IsLoadError(call.outcome)))
  => /\ call.response.isError
     /\ call.response.kind = "error"
     /\ call.response.text = <<"Error: ", RaisedMessage>>
     /\ call.op \notin KnownTools => call.outcome = NotInvoked

\* ------------------------------------- loading documents: C22, C23, C24
\* the environments of the restarts of this specification
LazyEnvs == {DefaultEnv, [DefaultEnv EXCEPT !.NODE_ENV = "production"]}

InitLazy == env = DefaultEnv /\ InitStores(SinglePatternLists, Stores)

NextLazy ==
  \/ GetAllRules
  \/ \E q \in SmallQueries : FindBestMatch(q)
  \/ \E q \in SmallQueries : GetContextForQuery(q)
  \/ ReadSettled
  \/ \E f \in DOMAIN files : LoadPromptContent(f)
  \/ LoadSettled
  \/ Forget
  \/ \E e \in LazyEnvs : Restart(e)
  \/ \E f \in DOMAIN files : DeleteFile(f)
  \/ \E f \in DOMAIN files : WriteFile(f, 1)
  \/ \E f \in DOMAIN files : MakeDirectory(f)

SpecLazy == InitLazy /\ [][NextLazy]_vars

\* the query of the call contains a pattern of some rule
QueryMatched == IsString(call.query) /\ TriggeredRules(call.query.s) # {}

\* C22: constructing the engine, getAllRules, findBestMatch and a
\* getContextForQuery whose query matches no rule read no document; a
\* document is read only after a query has matched a rule or on an explicit
\* loadPromptContent call, so a document that cannot be read is detected
\* by such a call and never at startup
C22_DocumentsReadLazily ==
  /\ running
  /\ (call.reads > 0 \/ call.pc = "reading") =>
       /\ call.via = "engine"
       /\ \/ call.op = "loadPromptContent"
          \/ call.op = "getContextForQuery" /\ QueryMatched
  /\ (call.pc = "done" /\ call.outcome.kind = "throw"
        /\ call.outcome # Throw(<<"TypeError">>)) => call.reads > 0

\* a document that was not there at startup is detected by the first match
C22_Witness ==
  /\ EngineDone("getContextForQuery") /\ call.fresh /\ QueryMatched
  /\ call.reads = 1 /\ IsLoadError(call.outcome)
  /\ files[TriggeredFile(call.query.s)] = Missing
  /\ env # DefaultEnv /\ returned = CopyRef

\* C23: a getContextForQuery call makes at most one read attempt, for the
\* promptFile of the rule that findBestMatch returned; after that read has
\* failed the call ends in the error of that document without another read
C23_OneReadNoFallback ==
  (call.via = "engine" /\ call.op = "getContextForQuery") =>
    /\ call.reads <= 1
    /\ call.reads = 1 =>
         /\ QueryMatched
         /\ call.rule = arrays[RulesRef][Earliest(TriggeredRules(call.query.s))]
    /\ (call.pc = "done" /\ IsLoadError(call.outcome)) =>
         /\ call.reads = 1
         /\ call.outcome.error[2][2] = ruleObjs[call.rule].promptFile

\* the load for the first rule failed while the document of the second
\* rule, which the query triggers as well, was there
C23_Witness ==
  /\ EngineDone("getContextForQuery") /\ call.fresh /\ QueryMatched
  /\ Len(RuleSet) = 2 /\ TriggeredRules(call.query.s) = {1, 2}
  /\ call.rule = arrays[RulesRef][1]
  /\ files[RuleSet[2].promptFile] = <<RuleSet[2].promptFile, 1>>
  /\ IsLoadError(call.outcome) /\ call.reads = 1

\* text contains part as a contiguous run
Carries(text, part) ==
  \E k \in 0..(Len(text) - Len(part)) :
    SubSeq(text, k + 1, k + Len(part)) = part

\* the loadPromptContent argument of the finished call
LoadedFile ==
  IF call.op = "loadPromptContent" THEN call.file
  ELSE ruleObjs[call.rule].promptFile

\* the message of the error that loadPromptContent raised in the call
LoadErrorText ==
  IF call.op = "loadPromptContent" THEN call.outcome.error
  ELSE call.outcome.error[2]

\* C24: the error of loadPromptContent for a document that is missing or
\* cannot be read carries the resolved path (prompts directory joined with
\* promptFile) and the underlying I/O error, and so does the error that
\* getContextForQuery propagates
C24_LoadErrorCarriesPathAndCause ==
  (call.pc = "done" /\ call.via = "engine" /\ call.reads > 0
     /\ call.outcome.kind = "throw")
  => LET filePath == join(promptsDir, split(LoadedFile)) IN
       /\ Carries(LoadErrorText, filePath)
       /\ \E r \in Rejections :
            Carries(LoadErrorText, ErrorString(r, filePath))

\* ----------------------------------------------------- HTTP server of run()
\* the servers that run() starts in production mode: the status server of
\* index.ts, the server with a session map, the server with one transport
HttpBuilds == {"index", "session", "shared"}

Methods == {"OPTIONS", "GET", "POST"}

\* req.url?.startsWith('/mcp')
McpUrls == {"/mcp", "/mcp/stream"}

Urls == McpUrls \cup {"/health", "/", "/other"}

\* req.headers['mcp-session-id']
SessionHeaders == {NoHeader, <<"client", 1>>, <<"client", 2>>}

\* the transport that run() of the server with one transport connects once
MainTransport == -1

\* res.writeHead(statusCode): it throws ERR_HTTP_HEADERS_SENT, and writes
\* nothing, once the headers have gone out
writeHead(res, statusCode) ==
  IF res.headersSent THEN [res EXCEPT !.rejected = TRUE]
  ELSE [res EXCEPT !.headersSent = TRUE, !.statusCode = statusCode]

\* res.writeHead(statusCode); res.end(...)
Respond(res, statusCode) ==
  LET w == writeHead(res, statusCode) IN
    IF w.rejected THEN w ELSE [w EXCEPT !.ended = TRUE]

\* catch (error) of the request handler: if (!res.headersSent) a 500
CatchRequestError(res) ==
  IF res.headersSent THEN res ELSE Respond(res, 500)

\* catch (error) of the req.on('end') callback: a 500 whatever was sent
CatchBodyError(res) == Respond(res, 500)

\* the catch block that an error of request r runs into
CatchOf(r) ==
  IF r.build = "shared" /\ r.method = "POST"
  THEN CatchBodyError(r.res)
  ELSE CatchRequestError(r.res)

\* the mcp-session-id header, or `auto-${Date.now()}-${random}`
SessionIdOf(header) ==
  IF header = NoHeader THEN <<"auto", Len(pairs) + 1>> ELSE header

\* new Server(...), new StreamableHTTPServerTransport(...) for sessionId
NewPair(sessionId) ==
  [sessionId |-> sessionId, state |-> "connecting"]

\* the answer of the routes that need no transport, or "mcp"
Route(build, method, url) ==
  IF method = "OPTIONS" THEN 200
  ELSE IF url = "/health" THEN 200
  ELSE IF build = "index"
  THEN (IF url \in {"/", "/initialize"} THEN 200 ELSE 404)
  ELSE IF url \in McpUrls THEN 0
  ELSE 404

Failed(r, error) ==
  [r EXCEPT !.pc = "done", !.error = error, !.res = CatchOf(r)]

\* httpServer.on('request', ...) up to its first await or to its return
HttpRequest(i, build, method, url, header) ==
  /\ running /\ isProduction(env) /\ requests[i].pc = "idle"
  /\ LET r == [IdleRequest EXCEPT !.build = build, !.method = method,
                 !.url = url, !.header = header]
         sessionId == SessionIdOf(header)
         status == Route(build, method, url)
     IN IF status # 0
        THEN /\ requests' = [requests EXCEPT ![i] =
                  [r EXCEPT !.pc = "done", !.res = Respond(r.res, status)]]
             /\ UNCHANGED <<sessionServers, pairs>>
        ELSE IF build = "shared"
        THEN /\ requests' = [requests EXCEPT ![i] =
                  IF method = "POST" THEN [r EXCEPT !.pc = "body"]
                  ELSE [r EXCEPT !.pc = "handling", !.pair = MainTransport]]
             /\ UNCHANGED <<sessionServers, pairs>>
        ELSE IF sessionId \in DOMAIN sessionServers
        THEN /\ requests' = [requests EXCEPT ![i] =
                  [r EXCEPT !.pc = "handling", !.sessionId = sessionId,
                            !.pair = sessionServers[sessionId]]]
             /\ UNCHANGED <<sessionServers, pairs>>
        ELSE /\ Len(pairs) < MaxPairs
             /\ pairs' = Append(pairs, NewPair(sessionId))
             /\ requests' = [requests EXCEPT ![i] =
                  [r EXCEPT !.pc = "connecting", !.sessionId = sessionId,
                            !.pair = Len(pairs) + 1]]
             /\ UNCHANGED sessionServers
  /\ UNCHANGED engineVars

\* req.on('end', ...) of a POST to the server with one transport: the body
\* is no JSON, an initialize message or another message
BodyParsed == {"invalid", "initialize", "other"}

BodyEnd(i, parsed) ==
  /\ running /\ requests[i].pc = "body"
  /\ requests' = [requests EXCEPT ![i] =
       CASE parsed = "invalid" -> Failed(@, "parse")
         [] parsed = "initialize" -> [@ EXCEPT !.pc = "connecting"]
         [] OTHER -> [@ EXCEPT !.pc = "handling", !.pair = MainTransport]]
  /\ UNCHANGED <<sessionServers, pairs>>
  /\ UNCHANGED engineVars

\* await sessionServer.connect(sessionTransport) settles: the session is
\* entered in the map and its transport takes the request, or the error is
\* thrown on
ConnectSettled(i, connected) ==
  /\ running /\ requests[i].pc = "connecting"
  /\ LET r == requests[i] IN
       /\ requests' = [requests EXCEPT ![i] =
            IF connected THEN [r EXCEPT !.pc = "handling"]
            ELSE Failed(r, "connect")]
       /\ IF r.build = "session"
          THEN /\ sessionServers' =
                    IF connected
                    THEN (r.sessionId :> r.pair) @@ sessionServers
                    ELSE sessionServers
               /\ pairs' = [pairs EXCEPT ![r.pair].state =
                              IF connected THEN "connected" ELSE "failed"]
          ELSE UNCHANGED <<sessionServers, pairs>>
  /\ UNCHANGED engineVars

\* how transport.handleRequest(req, res) ends: it has written a response,
\* or it throws before or after it has sent headers
TransportOutcomes == {"responded", "threw", "threwAfterHeaders"}

\* request r after await transport.handleRequest(req, res)
TransportSettled(r, outcome) ==
  CASE outcome = "responded" ->
         [r EXCEPT !.pc = "done", !.res = Respond(r.res, 200)]
    [] outcome = "threw" -> Failed(r, "transport")
    [] OTHER ->
         Failed([r EXCEPT !.res = writeHead(r.res, 200)], "transportAfterHeaders")

HandleRequestSettled(i, outcome) ==
  /\ running /\ requests[i].pc = "handling"
  /\ requests' = [requests EXCEPT ![i] = TransportSettled(@, outcome)]
  /\ UNCHANGED <<sessionServers, pairs>>
  /\ UNCHANGED engineVars

\* the client has its response
HttpForget(i) ==
  /\ requests[i].pc = "done"
  /\ requests' = [requests EXCEPT ![i] = IdleRequest]
  /\ UNCHANGED <<sessionServers, pairs>>
  /\ UNCHANGED engineVars

\* process.env of a production start
ProductionEnv == [DefaultEnv EXCEPT !.PORT = "8080"]

HttpPatternLists == {<< <<"a">> >>}

InitHttp == env = ProductionEnv /\ InitWith(HttpPatternLists)

\* one request at a time, every server
NextHttp ==
  \/ \E build \in HttpBuilds : \E method \in Methods : \E url \in Urls :
       \E header \in {NoHeader, <<"client", 1>>} :
         HttpRequest(1, build, method, url, header)
  \/ \E parsed \in BodyParsed : BodyEnd(1, parsed)
  \/ \E connected \in BOOLEAN : ConnectSettled(1, connected)
  \/ \E outcome \in TransportOutcomes : HandleRequestSettled(1, outcome)
  \/ HttpForget(1)

SpecHttp == InitHttp /\ [][NextHttp]_vars

\* overlapping requests to the server with a session map
NextSessions ==
  \/ \E i \in Slots : \E url \in {"/mcp", "/health"} :
       \E header \in SessionHeaders :
         HttpRequest(i, "session", "POST", url, header)
  \/ \E i \in Slots : \E connected \in BOOLEAN : ConnectSettled(i, connected)
  \/ \E i \in Slots : HandleRequestSettled(i, "responded")
  \/ \E i \in Slots : HttpForget(i)

SpecSessions == InitHttp /\ [][NextSessions]_vars

\* ------------------------------------------------- session map: C27, C28
\* the pairs created for session id s
PairsOf(s) == {p \in 1..Len(pairs) : pairs[p].sessionId = s}

\* the /mcp requests that a transport of the session map has taken
Taken ==
  {i \in DOMAIN requests :
     /\ requests[i].build = "session" /\ requests[i].url \in McpUrls
     /\ requests[i].pc \in {"handling", "done"}
     /\ requests[i].error # "connect"}

\* C27: for every mcp-session-id at most one Server/transport pair is ever
\* created, and all /mcp requests carrying that id are handled by that same
\* transport, also when two requests with the same new id arrive while the
\* first one is still awaiting sessionServer.connect
C27_OnePairPerSession ==
  /\ \A p, q \in 1..Len(pairs) :
       pairs[p].sessionId = pairs[q].sessionId => p = q
  /\ \A i \in Taken :
       /\ requests[i].sessionId \in DOMAIN sessionServers
       /\ sessionServers[requests[i].sessionId] = requests[i].pair

\* the session ids whose server has connected
ConnectedIds ==
  {pairs[p].sessionId : p \in {q \in 1..Len(pairs) : pairs[q].state = "connected"}}

\* the first pair of session id s that connected
FirstConnected(s) ==
  CHOOSE p \in PairsOf(s) :
    /\ pairs[p].state = "connected"
    /\ \A q \in PairsOf(s) : pairs[q].state = "connected" => p <= q

\* C28: the session map has an entry for a session id only after that
\* session's server has connected; a failed connect leaves the map as it is
\* and is answered with a 500, and a later request with that id creates
\* the session anew; entries are never removed or replaced, so the
\* activeSessions of /health never decreases
C28_SessionMapOnlyGrows ==
  /\ DOMAIN sessionServers = ConnectedIds
  /\ \A s \in DOMAIN sessionServers : sessionServers[s] = FirstConnected(s)
  /\ \A i \in DOMAIN requests :
       (requests[i].pc = "done" /\ requests[i].error = "connect") =>
         /\ requests[i].res.statusCode = 500 /\ requests[i].res.ended
         /\ pairs[requests[i].pair].state = "failed"

\* ------------------------------------------------------ HTTP responses: C29
\* the paths that a server answers
KnownPaths(build) ==
  IF build = "index" THEN {"/health", "/", "/initialize"}
  ELSE {"/health"} \cup McpUrls

\* C29: every HTTP request receives exactly one response and the response
\* headers are written at most once: OPTIONS is answered 200 before any
\* routing, /health 200, unknown paths 404, and on an error a 500 is
\* written only if no headers have been sent yet, errors raised after the
\* transport has started responding to a POST /mcp request included
C29_OneResponsePerRequest ==
  \A i \in DOMAIN requests :
    LET r == requests[i] IN
      /\ ~r.res.rejected
      /\ r.pc = "done" =>
           /\ r.res.headersSent
           /\ r.method = "OPTIONS" =>
                r.res.statusCode = 200 /\ r.res.ended /\ r.pair = NoPair
           /\ (r.method # "OPTIONS" /\ r.url = "/health") =>
                r.res.statusCode = 200 /\ r.res.ended
           /\ (r.method # "OPTIONS" /\ r.url \notin KnownPaths(r.build)) =>
                r.res.statusCode = 404 /\ r.res.ended
           /\ r.error \in {"parse", "connect", "transport"} =>
                r.res.statusCode = 500 /\ r.res.ended
           /\ r.error = "transportAfterHeaders" => r.res.statusCode # 500

\* ----------------------------------------------------- log pairing: C30
\* the handling of the finished tools/call request raised an error: an
\* unknown tool name, missing arguments, a query that is no string, or a
\* failure of the engine
Raised ==
  \/ call.op \notin KnownTools
  \/ call.outcome.kind = "throw"
  \/ /\ call.op = "get_context_for_query"
     /\ \/ ~call.args.present
        \/ call.via = "session" /\ ~Falsy(call.query) /\ ~IsString(call.query)

\* C30: for every tools/call request logRequest is called first and returns
\* id r, then logToolCall with r, then exactly one logResponse with r, with
\* status ERROR if and only if the handling raised an error and SUCCESS
\* otherwise
C30_LogPairing ==
  (call.via \in Builds /\ call.pc # "idle") =>
    /\ Len(call.log) >= 2
    /\ call.log[1] = LogCall("logRequest", call.requestId, "none")
    /\ call.log[2] = LogCall("logToolCall", call.requestId, "none")
    /\ call.pc = "reading" => Len(call.log) = 2
    /\ call.pc = "done" =>
         /\ Len(call.log) = 3
         /\ call.log[3].method = "logResponse"
         /\ call.log[3].requestId = call.requestId
         /\ call.log[3].status = IF Raised THEN "ERROR" ELSE "SUCCESS"
====
